---- MODULE Spec2Model ----
(***************************************************************************)
(* Team / project / task management backend: the task status transition   *)
(* table, the team membership authorization methods and the Team and Task *)
(* controllers, with the documents they read and write through Mongoose.  *)
(*                                                                         *)
(* A request handler is an async function.  Node runs the code between    *)
(* two awaits without interruption, so a handler is modelled as one       *)
(* action per database operation it awaits: the operation itself followed *)
(* by the synchronous code up to the next awaited operation.  Lookups in  *)
(* the users collection are folded into the step before them: no handler  *)
(* modelled here writes that collection.                                  *)
(***************************************************************************)
EXTENDS Integers, Sequences, FiniteSets, TLC

VARIABLES teams, projects, tasks, req, call, io, sockets, logged, emitted,
          fault, inflight, users, now

\* the state of the services next to the handlers: the fault of the side
\* effect services, the activity inserts not yet acknowledged, the users
\* collection and the clock
env == <<fault, inflight, users, now>>

vars == <<teams, projects, tasks, req, call, io, sockets, logged, emitted, env>>

(***************************************************************************)
(* Bounds of the model.                                                    *)
(***************************************************************************)
\* largest value of a team document's version key __v that the model follows
MaxVersion == 2
\* largest number of entries of a members array drawn as an input value
MaxMembers == 2

\* the handlers that can be in flight at the same time
Slots == {"a", "b"}

\* the users collection: three verified users; it is not written here
Users == {"u1", "u2", "u3"}
\* the users that send createTeam requests
Creators == {"u1"}
\* an id / email that matches no user document
NoUser == "nobody"

TeamIds == {"t1"}
ProjIds == {"p1"}
TaskIds == {"k1"}

(***************************************************************************)
(* Enumerations.                                                           *)
(***************************************************************************)
TaskStatus == {"todo", "in_progress", "review", "done"}

TeamMemberRole == {"owner", "admin", "member"}

(***************************************************************************)
(* Task model: the transition table.                                       *)
(***************************************************************************)
transitions ==
  [todo        |-> <<"in_progress", "done">>,
   in_progress |-> <<"todo", "review", "done">>,
   review      |-> <<"in_progress", "done">>,
   done        |-> <<"todo", "in_progress", "review">>]

includes(seq, x) == \E i \in DOMAIN seq : seq[i] = x

\* a variant whose table has the edge todo -> review
canTransitionTo_loose(status, newStatus) ==
  \/ includes(transitions[status], newStatus)
  \/ (status = "todo" /\ newStatus = "review")

\* task.canTransitionTo(newStatus), task.status = status
canTransitionTo(status, newStatus) ==
  IF status \in DOMAIN transitions
    THEN includes(transitions[status], newStatus)
    ELSE FALSE

(***************************************************************************)
(* Team model: membership methods.  A team value is a record with the     *)
(* fields owner (a user id) and members (a sequence of [userId, role]).   *)
(***************************************************************************)
\* team.isMember(userId)
isMember(team, userId) ==
  \E i \in DOMAIN team.members : team.members[i].userId = userId

\* team.isAdminOrOwner(userId)
isAdminOrOwner(team, userId) ==
  IF team.owner = userId
    THEN TRUE
    ELSE \E i \in DOMAIN team.members :
           /\ team.members[i].userId = userId
           /\ team.members[i].role \in {"admin", "owner"}

\* Array.prototype.findIndex over members by userId; 0 stands for -1
findIndex(members, userId) ==
  IF \E i \in DOMAIN members : members[i].userId = userId
    THEN CHOOSE i \in DOMAIN members :
           /\ members[i].userId = userId
           /\ \A j \in 1..(i - 1) : members[j].userId # userId
    ELSE 0

\* team.getMemberRole(userId); "null" stands for null
getMemberRole(team, userId) ==
  IF team.owner = userId
    THEN "owner"
    ELSE IF findIndex(team.members, userId) # 0
           THEN team.members[findIndex(team.members, userId)].role
           ELSE "null"

\* Array.prototype.splice(index, 1)
splice(seq, index) ==
  [i \in 1..(Len(seq) - 1) |-> IF i < index THEN seq[i] ELSE seq[i + 1]]

(***************************************************************************)
(* Documents.  st is "free" for an id no document was ever stored under,  *)
(* "live" for a stored document and "gone" for a deleted one; findById    *)
(* answers null unless st = "live".  v is the version key __v.            *)
(***************************************************************************)
NoTeam == [st |-> "free", owner |-> NoUser, members |-> <<>>, v |-> 0]

NoProject == [st |-> "free", name |-> "none", teamId |-> "none",
              createdBy |-> NoUser]

NoTask == [st |-> "free", status |-> "todo", assignee |-> "null",
           projectId |-> "none", createdBy |-> NoUser]

\* Model.findById(id): the stored document, or null (a document not "live")
findById(coll, id) == coll[id]

\* the document left under an id whose document was deleted
Deleted(doc) ==
  IF "members" \in DOMAIN doc THEN [NoTeam EXCEPT !.st = "gone"]
  ELSE IF "status" \in DOMAIN doc THEN [NoTask EXCEPT !.st = "gone"]
  ELSE [NoProject EXCEPT !.st = "gone"]

\* Project.findByIdAndDelete(id) / Task.findByIdAndDelete(id)
findByIdAndDelete_doc(coll, id) ==
  IF coll[id].st = "live"
    THEN [coll EXCEPT ![id] = Deleted(coll[id])]
    ELSE coll

\* Team.findByIdAndDelete(id)
findByIdAndDelete(coll, id) ==
  IF coll[id].st = "live"
    THEN [coll EXCEPT ![id] = [NoTeam EXCEPT !.st = "gone"]]
    ELSE coll

\* the email addresses, names, one time codes and passwords of auth requests
Emails == {"e1"}
Names == {"n1", "n2"}
Codes == {"c1", "c2"}
Passwords == {"w1", "w2"}

\* a user document: name, isVerified, password, otp and otpExpiry of IUser;
\* <<>> stands for a path that is not set, and st is "free" while no user
\* is stored under the email
NoUserDoc == [st |-> "free", name |-> "none", isVerified |-> FALSE,
              password |-> <<>>, otp |-> <<>>, otpExpiry |-> <<>>]

(***************************************************************************)
(* Requests.  req[s] is the handler running in slot s: its operation, its *)
(* position pc, its inputs, the documents it holds in memory and, once    *)
(* pc = "done", the response it sent.  after holds the slots whose save of *)
(* the same task was acknowledged before this handler's save and that     *)
(* have not emitted their events yet.                                      *)
(***************************************************************************)
Blank ==
  [op |-> "none", pc |-> "idle", user |-> NoUser,
   teamId |-> "none", projId |-> "none", taskId |-> "none",
   memberId |-> NoUser, role |-> "none", oldRole |-> "none",
   status |-> "absent", assignee |-> "absent", name |-> "absent",
   team |-> NoTeam, proj |-> NoProject, task |-> NoTask, index |-> 0,
   after |-> {},
   email |-> "none", otp |-> "none", password |-> "none",
   account |-> NoUserDoc,
   code |-> 0, err |-> "none", msg |-> <<>>]

\* no response is waiting to be written to its socket
Quiet == \A s \in Slots : req[s].pc # "done"

\* a slot can take a new request when no handler is running in it
Free(s) == Quiet /\ req[s].pc = "idle"

\* the handler of slot s runs operation op and resumes at pc
At(s, op, pc) == Quiet /\ req[s].op = op /\ req[s].pc = pc

\* ResponseHandler.success / error / notFound / forbidden / serverError
\* (the response state keeps the request's ids, status and assignee and the
\* team and task documents the handler holds)
Reply(r, code, err, msg) ==
  [Blank EXCEPT !.op = r.op, !.user = r.user, !.teamId = r.teamId,
                !.projId = r.projId, !.taskId = r.taskId,
                !.memberId = r.memberId, !.status = r.status,
                !.assignee = r.assignee, !.task = r.task, !.team = r.team,
                !.name = r.name, !.proj = r.proj, !.after = r.after,
                !.email = r.email, !.otp = r.otp, !.password = r.password,
                !.account = r.account,
                !.pc = "done", !.code = code, !.err = err, !.msg = msg]

serverError(r) == Reply(r, 500, "Internal Server Error", <<"Internal server error">>)

\* validateRequest(dto): the 422 answer of the validation middleware
validationError(r) ==
  Reply([Blank EXCEPT !.op = r.op], 422, "Validation failed",
        <<"Validation failed">>)

(***************************************************************************)
(* Mongoose Document.save() on a loaded team.  save() sends only the      *)
(* modified paths: members.push(...) becomes $push with $inc of __v,      *)
(* members.splice(...) becomes $set of the whole array with __v in the    *)
(* filter and $inc of __v, and a write to members.<i>.role becomes $set   *)
(* of that path with __v in the filter.  A filter that matches no         *)
(* document makes save() throw (VersionError / DocumentNotFoundError).    *)
(***************************************************************************)
\* a variant that writes the whole in-memory array back
savePush_overwrite(stored, local, entry) ==
  IF stored.st = "live"
    THEN [ok |-> TRUE,
          doc |-> [stored EXCEPT !.members = local.members, !.v = @ + 1]]
    ELSE [ok |-> FALSE, doc |-> stored]

\* inviteMember: team.members.push(entry); await team.save()
savePush(stored, local, entry) ==
  IF stored.st = "live"
    THEN [ok |-> TRUE,
          doc |-> [stored EXCEPT !.members = Append(@, entry), !.v = @ + 1]]
    ELSE [ok |-> FALSE, doc |-> stored]

\* removeMember / leaveTeam: team.members.splice(i, 1); await team.save()
saveSplice(stored, local) ==
  IF stored.st = "live" /\ stored.v = local.v
    THEN [ok |-> TRUE,
          doc |-> [stored EXCEPT !.members = local.members, !.v = @ + 1]]
    ELSE [ok |-> FALSE, doc |-> stored]

\* updateMemberRole: member.role = role; await team.save()
\* (an unchanged role is no modified path: nothing is written)
saveRole(stored, local, index, oldRole) ==
  IF stored.st # "live"
    THEN [ok |-> FALSE, doc |-> stored]
    ELSE IF local.members[index].role = oldRole
      THEN [ok |-> TRUE, doc |-> stored]
      ELSE IF stored.v = local.v
        THEN [ok |-> TRUE,
              doc |-> [stored EXCEPT
                         !.members[index].role = local.members[index].role]]
        ELSE [ok |-> FALSE, doc |-> stored]

\* number of handlers about to run a save that increments __v of team t
Pending(t) ==
  Cardinality({s \in Slots : /\ req[s].pc = "save"
                             /\ req[s].teamId = t
                             /\ req[s].op \in {"inviteMember", "removeMember",
                                               "leaveTeam"}})

\* the model follows __v up to MaxVersion
VersionRoom(t) == teams[t].v + Pending(t) < MaxVersion

(***************************************************************************)
(* Socket.IO.  io tells whether initializeSocket has run.  sockets[c] is  *)
(* connection c: the user its token was verified for, the rooms it is in  *)
(* and the last event its handlers sent it or took.  An emission is one       *)
(* io.to(room).emit(event, payload); emitted holds the emissions of the   *)
(* handler step whose response is being written.                          *)
(***************************************************************************)
\* the connections that clients can open
Conns == {"c1"}

\* `team:${teamId}`
teamRoom(teamId) == "team:" \o teamId

\* `user:${userId}`
userRoom(userId) == "user:" \o userId

\* Document.prototype.toString() of a populated reference: Mongoose renders
\* the document, not its id
toString_populated(id) == "{ _id: " \o id \o " }"

NoSocket == [user |-> NoUser, rooms |-> {}, last |-> <<>>]

Emission(room, event, isPersonal) ==
  [room |-> room, event |-> event, isPersonal |-> isPersonal]

\* the faults of the side effect services: activity.save() rejects
\* ("activity"), io.to(room).emit throws ("emit"), the activity insert is
\* acknowledged late ("slow")
Faults == {"none", "activity", "emit", "slow"}

\* an emit method of SocketService that addresses the team room only: it
\* returns early without a socket server and its try / catch takes a throw
emitToTeam(event, teamId) ==
  IF ~io \/ fault = "emit" THEN <<>>
  ELSE <<Emission(teamRoom(teamId), event, FALSE)>>

\* a variant that leaves the personal copy unmarked
emitToTeamAndUser_unmarked(event, teamId, userId) ==
  IF ~io \/ fault = "emit" THEN <<>>
  ELSE <<Emission(teamRoom(teamId), event, FALSE),
         Emission(userRoom(userId), event, FALSE)>>

\* an emit method of SocketService that adds a copy for one user
emitToTeamAndUser(event, teamId, userId) ==
  IF ~io \/ fault = "emit" THEN <<>>
  ELSE <<Emission(teamRoom(teamId), event, FALSE),
         Emission(userRoom(userId), event, TRUE)>>

emitTaskCreated(teamId) == emitToTeam("task:created", teamId)

emitTaskUpdated(teamId) == emitToTeam("task:updated", teamId)

emitTaskDeleted(teamId) == emitToTeam("task:deleted", teamId)

emitTaskStatusChanged(teamId) == emitToTeam("task:status_changed", teamId)

\* the personal copy is sent if (payload.assignee?.id)
emitTaskAssigned(teamId, assigneeId) ==
  IF assigneeId \in Users
    THEN emitToTeamAndUser("task:assigned", teamId, assigneeId)
    ELSE emitToTeam("task:assigned", teamId)

emitMemberJoined(teamId, memberId) ==
  emitToTeamAndUser("member:joined", teamId, memberId)

emitMemberRemoved(teamId, memberId) ==
  emitToTeamAndUser("member:removed", teamId, memberId)

emitMemberRoleUpdated(teamId, memberId) ==
  emitToTeamAndUser("member:role_updated", teamId, memberId)

emitProjectCreated(teamId) == emitToTeam("project:created", teamId)

emitProjectUpdated(teamId) == emitToTeam("project:updated", teamId)

emitProjectDeleted(teamId) == emitToTeam("project:deleted", teamId)

(***************************************************************************)
(* ActivityService.  logged holds the activity documents inserted by the  *)
(* handler step whose response is being written.  logActivity is started  *)
(* without await: its insert either is acknowledged at once, or rejects   *)
(* (logActivity catches and returns null), or stays in flight and is      *)
(* acknowledged by a later step.  An insert in flight is kept with the    *)
(* slot of the handler that started it and with whether that handler has  *)
(* answered its request.                                                   *)
(***************************************************************************)
\* the most activity inserts in flight
MaxInflight == 3

\* a variant in which a rejected insert is repeated until it is acknowledged
inserted_retried(docs) == IF fault = "slow" THEN <<>> ELSE docs

\* the started logActivity calls docs whose insert is acknowledged at once
inserted(docs) == IF fault \in {"activity", "slow"} THEN <<>> ELSE docs

\* an insert in flight
Insert(s, doc) == [doc |-> doc, slot |-> s, answered |-> FALSE]

\* the inserts in flight after the handler of slot s started the logActivity
\* calls docs
started(s, docs) ==
  IF fault = "slow"
    THEN inflight \o [i \in DOMAIN docs |-> Insert(s, docs[i])]
    ELSE inflight

\* the inserts in flight once the handler of slot s has answered
answered(s) ==
  [i \in DOMAIN inflight |->
     IF inflight[i].slot = s THEN [inflight[i] EXCEPT !.answered = TRUE]
                             ELSE inflight[i]]

\* the inserts in flight stay within the bound
InflightRoom(docs) == fault = "slow" => Len(inflight) + Len(docs) <= MaxInflight

\* ActivityService.logActivity(params): the document it inserts
logActivity(userId, teamId, action, entity, entityId, metadata) ==
  [userId |-> userId, teamId |-> teamId, action |-> action,
   entity |-> entity, entityId |-> entityId, metadata |-> metadata]

(***************************************************************************)
(* class-validator DTOs of the team routes.                                *)
(***************************************************************************)
\* request body values of the role field; "absent" is a body without it
RawRoles == TeamMemberRole \cup {"absent", "superuser"}

\* a variant that accepts what the message states: admin or member
IsEnumTeamMemberRole_strict(role) == role \in {"admin", "member"}

\* @IsEnum(TeamMemberRole)
IsEnumTeamMemberRole(role) == role \in TeamMemberRole

\* InviteMemberDto: @IsOptional() @IsEnum(TeamMemberRole) role
InviteMemberDtoValid(role) == role = "absent" \/ IsEnumTeamMemberRole(role)

\* InviteMemberDto: role?: TeamMemberRole = TeamMemberRole.MEMBER
InviteMemberDtoRole(role) == IF role = "absent" THEN "member" ELSE role

\* UpdateMemberRoleDto: @IsNotEmpty() @IsEnum(TeamMemberRole) role
UpdateMemberRoleDtoValid(role) == role # "absent" /\ IsEnumTeamMemberRole(role)

(***************************************************************************)
(* TeamController.                                                         *)
(***************************************************************************)
Start(s, op, u, t) == [Blank EXCEPT !.op = op, !.user = u, !.teamId = t]

\* POST /api/teams
createTeam(s, u) ==
  /\ Free(s)
  /\ \E t \in TeamIds :
       /\ teams[t].st = "free"
       /\ teams' = [teams EXCEPT ![t] =
                      [st |-> "live", owner |-> u,
                       members |-> <<[userId |-> u, role |-> "owner"]>>,
                       v |-> 0]]
       /\ req' = [req EXCEPT ![s] =
                    Reply(Start(s, "createTeam", u, t), 201, "none",
                          <<"Team created successfully">>)]
  /\ UNCHANGED <<projects, tasks, call, io, sockets, logged, emitted, env>>

\* DELETE /api/teams/:teamId, up to the awaited findByIdAndDelete
deleteTeam_load(s, u, t) ==
  LET r == Start(s, "deleteTeam", u, t)
      team == findById(teams, t)
  IN  /\ Free(s)
      /\ req' = [req EXCEPT ![s] =
           IF team.st # "live"
             THEN Reply([Blank EXCEPT !.op = r.op], 404, "Not found", <<"Team not found">>)
           ELSE IF team.owner # u
             THEN Reply(r, 403, "Forbidden",
                        <<"Only team owner can delete the team">>)
           ELSE [r EXCEPT !.team = team, !.pc = "delete"]]
      /\ UNCHANGED <<teams, projects, tasks, call, io, sockets, logged, emitted, env>>

\* deleteTeam: await Team.findByIdAndDelete(teamId) and the answer
deleteTeam_delete(s) ==
  /\ At(s, "deleteTeam", "delete")
  /\ teams' = findByIdAndDelete(teams, req[s].teamId)
  /\ req' = [req EXCEPT ![s] =
               Reply(@, 200, "none", <<"Team deleted successfully">>)]
  /\ UNCHANGED <<projects, tasks, call, io, sockets, logged, emitted, env>>

\* POST /api/teams/:teamId/members, up to the awaited team.save()
inviteMember_load(s, u, t, email, rawRole) ==
  LET r == [Start(s, "inviteMember", u, t) EXCEPT
              !.memberId = email, !.role = rawRole]
      team == findById(teams, t)
      role == InviteMemberDtoRole(rawRole)
      entry == [userId |-> email, role |-> role]
  IN  /\ Free(s)
      /\ IF ~InviteMemberDtoValid(rawRole)
           THEN req' = [req EXCEPT ![s] = validationError(r)]
         ELSE IF team.st # "live"
           THEN req' = [req EXCEPT ![s] =
                          Reply([Blank EXCEPT !.op = r.op], 404, "Not found", <<"Team not found">>)]
         ELSE IF ~isAdminOrOwner(team, u)
           THEN req' = [req EXCEPT ![s] =
                  Reply(r, 403, "Forbidden",
                        <<"Only team admins or owners can invite members">>)]
         ELSE IF email \notin Users
           THEN req' = [req EXCEPT ![s] =
                  Reply(r, 404, "Not found",
                        <<"User not found with this email">>)]
         ELSE IF isMember(team, email)
           THEN req' = [req EXCEPT ![s] =
                  Reply(r, 409, "Conflict",
                        <<"User is already a member of this team">>)]
         ELSE /\ VersionRoom(t)
              /\ req' = [req EXCEPT ![s] =
                   [r EXCEPT !.role = role, !.pc = "save",
                             !.team = [team EXCEPT
                                         !.members = Append(@, entry)]]]
      /\ UNCHANGED <<teams, projects, tasks, call, io, sockets, logged, emitted, env>>

\* inviteMember: await team.save() and the answer
inviteMember_save(s) ==
  LET r == req[s]
      t == r.teamId
      res == savePush(teams[t], r.team,
                      [userId |-> r.memberId, role |-> r.role])
  IN  /\ At(s, "inviteMember", "save")
      /\ teams' = [teams EXCEPT ![t] = res.doc]
      /\ req' = [req EXCEPT ![s] =
           IF res.ok
             THEN Reply(r, 201, "none", <<"Member added to team successfully">>)
             ELSE serverError(r)]
      /\ emitted' = IF res.ok THEN emitMemberJoined(t, r.memberId) ELSE <<>>
      /\ UNCHANGED <<projects, tasks, call, io, sockets, logged, env>>

\* a variant without the guard on the owner
removeMember_check_noguard(team, u, memberId) ==
  IF ~isAdminOrOwner(team, u) THEN "forbidden"
  ELSE IF findIndex(team.members, memberId) = 0 THEN "notMember"
  ELSE "ok"

\* removeMember: the checks between findById and splice
removeMember_check(team, u, memberId) ==
  IF ~isAdminOrOwner(team, u) THEN "forbidden"
  ELSE IF team.owner = memberId THEN "owner"
  ELSE IF findIndex(team.members, memberId) = 0 THEN "notMember"
  ELSE "ok"

\* DELETE /api/teams/:teamId/members/:memberId, up to the awaited save
removeMember_load(s, u, t, memberId) ==
  LET r == [Start(s, "removeMember", u, t) EXCEPT !.memberId = memberId]
      team == findById(teams, t)
      chk == removeMember_check(team, u, memberId)
      memberIndex == findIndex(team.members, memberId)
  IN  /\ Free(s)
      /\ IF team.st # "live"
           THEN req' = [req EXCEPT ![s] =
                          Reply([Blank EXCEPT !.op = r.op], 404, "Not found", <<"Team not found">>)]
         ELSE IF chk = "forbidden"
           THEN req' = [req EXCEPT ![s] =
                  Reply(r, 403, "Forbidden",
                        <<"Only team admins or owners can remove members">>)]
         ELSE IF chk = "owner"
           THEN req' = [req EXCEPT ![s] =
                  Reply(r, 400, "Bad Request", <<"Cannot remove team owner">>)]
         ELSE IF chk = "notMember"
           THEN req' = [req EXCEPT ![s] =
                  Reply(r, 404, "Not found", <<"Member not found in this team">>)]
         ELSE /\ VersionRoom(t)
              /\ req' = [req EXCEPT ![s] =
                   [r EXCEPT !.pc = "save", !.index = memberIndex,
                             !.team = [team EXCEPT
                                !.members = splice(@, memberIndex)]]]
      /\ UNCHANGED <<teams, projects, tasks, call, io, sockets, logged, emitted, env>>

\* removeMember: await team.save() and the answer
removeMember_save(s) ==
  LET r == req[s]
      t == r.teamId
      res == saveSplice(teams[t], r.team)
  IN  /\ At(s, "removeMember", "save")
      /\ teams' = [teams EXCEPT ![t] = res.doc]
      /\ req' = [req EXCEPT ![s] =
           IF res.ok
             THEN Reply(r, 200, "none",
                        <<"Member removed from team successfully">>)
             ELSE serverError(r)]
      /\ emitted' = IF res.ok THEN emitMemberRemoved(t, r.memberId) ELSE <<>>
      /\ UNCHANGED <<projects, tasks, call, io, sockets, logged, env>>

\* a variant that lets every admin or owner pass
updateMemberRole_allowed_admin(team, u) == isAdminOrOwner(team, u)

\* updateMemberRole: only the owner can update roles
updateMemberRole_allowed(team, u) == team.owner = u

\* PATCH /api/teams/:teamId/members/:memberId/role, up to the awaited save
updateMemberRole_load(s, u, t, memberId, rawRole) ==
  LET r == [Start(s, "updateMemberRole", u, t) EXCEPT
              !.memberId = memberId, !.role = rawRole]
      team == findById(teams, t)
      index == findIndex(team.members, memberId)
  IN  /\ Free(s)
      /\ req' = [req EXCEPT ![s] =
           IF ~UpdateMemberRoleDtoValid(rawRole)
             THEN validationError(r)
           ELSE IF team.st # "live"
             THEN Reply([Blank EXCEPT !.op = r.op], 404, "Not found", <<"Team not found">>)
           ELSE IF ~updateMemberRole_allowed(team, u)
             THEN Reply(r, 403, "Forbidden",
                        <<"Only team owner can update member roles">>)
           ELSE IF team.owner = memberId
             THEN Reply(r, 400, "Bad Request",
                        <<"Cannot update team owner role">>)
           ELSE IF index = 0
             THEN Reply(r, 404, "Not found",
                        <<"Member not found in this team">>)
           ELSE [r EXCEPT !.pc = "save", !.index = index,
                          !.oldRole = team.members[index].role,
                          !.team = [team EXCEPT
                                      !.members[index].role = rawRole]]]
      /\ UNCHANGED <<teams, projects, tasks, call, io, sockets, logged, emitted, env>>

\* updateMemberRole: await team.save() and the answer
updateMemberRole_save(s) ==
  LET r == req[s]
      t == r.teamId
      res == saveRole(teams[t], r.team, r.index, r.oldRole)
  IN  /\ At(s, "updateMemberRole", "save")
      /\ teams' = [teams EXCEPT ![t] = res.doc]
      /\ req' = [req EXCEPT ![s] =
           IF res.ok
             THEN Reply(r, 200, "none", <<"Member role updated successfully">>)
             ELSE serverError(r)]
      /\ emitted' = IF res.ok THEN emitMemberRoleUpdated(t, r.memberId)
                              ELSE <<>>
      /\ UNCHANGED <<projects, tasks, call, io, sockets, logged, env>>

\* a variant of the owner test that holds for nobody
leaveTeam_isOwner_nobody(team, u) == FALSE

\* leaveTeam: if (team.owner.toString() === userId)
leaveTeam_isOwner(team, u) == team.owner = u

\* POST /api/teams/:teamId/leave, up to the awaited save
leaveTeam_load(s, u, t) ==
  LET r == [Start(s, "leaveTeam", u, t) EXCEPT !.memberId = u]
      team == findById(teams, t)
      memberIndex == findIndex(team.members, u)
  IN  /\ Free(s)
      /\ IF team.st # "live"
           THEN req' = [req EXCEPT ![s] =
                          Reply([Blank EXCEPT !.op = r.op], 404, "Not found", <<"Team not found">>)]
         ELSE IF leaveTeam_isOwner(team, u)
           THEN req' = [req EXCEPT ![s] =
                  Reply(r, 400, "Bad Request", <<"Team owner cannot leave">>)]
         ELSE IF memberIndex = 0
           THEN req' = [req EXCEPT ![s] =
                  Reply(r, 400, "Bad Request",
                        <<"You are not a member of this team">>)]
         ELSE /\ VersionRoom(t)
              /\ req' = [req EXCEPT ![s] =
                   [r EXCEPT !.pc = "save", !.index = memberIndex,
                             !.team = [team EXCEPT
                                !.members = splice(@, memberIndex)]]]
      /\ UNCHANGED <<teams, projects, tasks, call, io, sockets, logged, emitted, env>>

\* leaveTeam: await team.save() and the answer
leaveTeam_save(s) ==
  LET r == req[s]
      t == r.teamId
      res == saveSplice(teams[t], r.team)
  IN  /\ At(s, "leaveTeam", "save")
      /\ teams' = [teams EXCEPT ![t] = res.doc]
      /\ req' = [req EXCEPT ![s] =
           IF res.ok
             THEN Reply(r, 200, "none", <<"Left team successfully">>)
             ELSE serverError(r)]
      /\ UNCHANGED <<projects, tasks, call, io, sockets, logged, emitted, env>>

\* PUT /api/teams/:teamId, up to the awaited team.save(); the name and the
\* description it assigns are not followed
updateTeam_load(s, u, t) ==
  LET r == Start(s, "updateTeam", u, t)
      team == findById(teams, t)
  IN  /\ Free(s)
      /\ req' = [req EXCEPT ![s] =
           IF team.st # "live"
             THEN Reply([Blank EXCEPT !.op = r.op], 404, "Not found", <<"Team not found">>)
           ELSE IF ~isAdminOrOwner(team, u)
             THEN Reply(r, 403, "Forbidden",
                        <<"Only team admins or owners can update team details">>)
           ELSE [r EXCEPT !.pc = "save", !.team = team]]
      /\ UNCHANGED <<teams, projects, tasks, call, io, sockets, logged, emitted, env>>

\* updateTeam: await team.save(), a $set of name and description that
\* fails when the document is gone, and the answer; no event is emitted
updateTeam_save(s) ==
  LET r == req[s]
  IN  /\ At(s, "updateTeam", "save")
      /\ req' = [req EXCEPT ![s] =
           IF teams[r.teamId].st = "live"
             THEN Reply(r, 200, "none", <<"Team updated successfully">>)
             ELSE serverError(r)]
      /\ UNCHANGED <<teams, projects, tasks, call, io, sockets, logged, emitted, env>>

(***************************************************************************)
(* ProjectController.createProject and TaskController.                     *)
(***************************************************************************)
\* number of handlers of operation op that are about to insert a document
Inserting(op) ==
  Cardinality({s \in Slots : req[s].op = op /\ req[s].pc \notin {"idle", "done"}})

\* number of ids of a collection that no document was stored under
FreeIds(coll) == Cardinality({id \in DOMAIN coll : coll[id].st = "free"})

\* the project names of requests: CreateProjectDto requires a name,
\* UpdateProjectDto takes one or none
CreateNames == {"n0"}
UpdateNames == {"absent", "n0", "n1"}

\* POST /api/projects, up to the awaited project.save()
createProject_load(s, u, t, name) ==
  LET r == [Start(s, "createProject", u, t) EXCEPT !.name = name]
      team == findById(teams, t)
  IN  /\ Free(s)
      /\ IF team.st # "live"
           THEN req' = [req EXCEPT ![s] =
                          Reply(r, 404, "Not found", <<"Team not found">>)]
         ELSE IF ~isMember(team, u)
           THEN req' = [req EXCEPT ![s] =
                  Reply(r, 403, "Forbidden",
                        <<"You are not a member of this team">>)]
         ELSE /\ Inserting("createProject") < FreeIds(projects)
              /\ req' = [req EXCEPT ![s] = [r EXCEPT !.pc = "save"]]
      /\ UNCHANGED <<teams, projects, tasks, call, io, sockets, logged, emitted, env>>

\* createProject: await project.save(), the activity, the populate of
\* teamId (whose _id is read, which throws when the team is gone), the
\* event and the answer
createProject_save(s) ==
  LET r == req[s]
      populated == findById(teams, r.teamId).st = "live"
  IN  /\ At(s, "createProject", "save")
      /\ \E p \in ProjIds :
           /\ projects[p].st = "free"
           /\ projects' = [projects EXCEPT ![p] =
                [st |-> "live", name |-> r.name, teamId |-> r.teamId,
                 createdBy |-> r.user]]
           /\ LET docs == <<logActivity(r.user, r.teamId, "created",
                                        "project", p, <<>>)>>
              IN  /\ InflightRoom(docs)
                  /\ logged' = inserted(docs)
                  /\ inflight' = started(s, docs)
           /\ req' = [req EXCEPT ![s] =
                IF populated
                  THEN Reply([r EXCEPT !.projId = p], 201, "none",
                             <<"Project created successfully">>)
                  ELSE serverError([r EXCEPT !.projId = p])]
      /\ emitted' = IF populated THEN emitProjectCreated(r.teamId) ELSE <<>>
      /\ UNCHANGED <<teams, tasks, call, io, sockets, fault, users, now>>

\* Mongoose Document.save() on a loaded project: $set of name when the
\* handler assigned a value other than the loaded one; nothing is sent when
\* no path was modified
saveProject(stored, loaded, name) ==
  IF name = "absent" \/ name = loaded.name
    THEN [ok |-> TRUE, doc |-> stored]
  ELSE IF stored.st # "live"
    THEN [ok |-> FALSE, doc |-> stored]
  ELSE [ok |-> TRUE, doc |-> [stored EXCEPT !.name = name]]

\* a variant of the permission check that lets every member pass
projectAllowed_member(team, u) == isMember(team, u)

\* updateProject / deleteProject: if (!team.isAdminOrOwner(userId))
projectAllowed(team, u) == isAdminOrOwner(team, u)

\* PUT /api/projects/:projectId, up to the awaited Team.findById
updateProject_find(s, u, p, name) ==
  LET r == [Start(s, "updateProject", u, "none") EXCEPT
              !.projId = p, !.name = name]
      project == findById(projects, p)
  IN  /\ Free(s)
      /\ req' = [req EXCEPT ![s] =
           IF project.st # "live"
             THEN Reply(r, 404, "Not found", <<"Project not found">>)
             ELSE [r EXCEPT !.pc = "team", !.proj = project,
                            !.teamId = project.teamId]]
      /\ UNCHANGED <<teams, projects, tasks, call, io, sockets, logged, emitted, env>>

\* updateProject: await Team.findById(project.teamId), up to project.save()
updateProject_team(s) ==
  LET r == req[s]
      team == findById(teams, r.teamId)
  IN  /\ At(s, "updateProject", "team")
      /\ req' = [req EXCEPT ![s] =
           IF team.st # "live"
             THEN Reply(r, 404, "Not found", <<"Team not found">>)
           ELSE IF ~projectAllowed(team, r.user)
             THEN Reply([r EXCEPT !.team = team], 403, "Forbidden",
                        <<"You are not authorized to access this project">>)
           ELSE [r EXCEPT !.pc = "save", !.team = team]]
      /\ UNCHANGED <<teams, projects, tasks, call, io, sockets, logged, emitted, env>>

\* updateProject: await project.save(), the activity, the populate of teamId
\* (whose _id is read, which throws when the team is gone), the event, whose
\* teamId is project.teamId.toString() of the populated reference, and the
\* answer
updateProject_save(s) ==
  LET r == req[s]
      p == r.projId
      res == saveProject(projects[p], r.proj, r.name)
      populated == findById(teams, r.teamId).st = "live"
  IN  /\ At(s, "updateProject", "save")
      /\ projects' = [projects EXCEPT ![p] = res.doc]
      /\ req' = [req EXCEPT ![s] =
           IF res.ok /\ populated
             THEN Reply(r, 200, "none", <<"Project updated successfully">>)
             ELSE serverError(r)]
      /\ LET docs == IF res.ok
                       THEN <<logActivity(r.user, r.teamId, "updated",
                                          "project", p,
                                          <<r.proj.name, r.name>>)>>
                       ELSE <<>>
         IN  /\ InflightRoom(docs)
             /\ logged' = inserted(docs)
             /\ inflight' = started(s, docs)
      /\ emitted' = IF res.ok /\ populated
                      THEN emitProjectUpdated(toString_populated(r.teamId))
                      ELSE <<>>
      /\ UNCHANGED <<teams, tasks, call, io, sockets, fault, users, now>>

\* DELETE /api/projects/:projectId, up to the awaited Team.findById
deleteProject_find(s, u, p) ==
  LET r == [Start(s, "deleteProject", u, "none") EXCEPT !.projId = p]
      project == findById(projects, p)
  IN  /\ Free(s)
      /\ req' = [req EXCEPT ![s] =
           IF project.st # "live"
             THEN Reply(r, 404, "Not found", <<"Project not found">>)
             ELSE [r EXCEPT !.pc = "team", !.proj = project,
                            !.teamId = project.teamId]]
      /\ UNCHANGED <<teams, projects, tasks, call, io, sockets, logged, emitted, env>>

\* a variant that deletes the project before it looks at the requester
deleteProject_team_eager(s) ==
  LET r == req[s]
      team == findById(teams, r.teamId)
  IN  /\ At(s, "deleteProject", "team")
      /\ projects' = findByIdAndDelete_doc(projects, r.projId)
      /\ req' = [req EXCEPT ![s] =
           IF team.st # "live"
             THEN Reply(r, 404, "Not found", <<"Team not found">>)
           ELSE IF ~projectAllowed(team, r.user)
             THEN Reply([r EXCEPT !.team = team], 403, "Forbidden",
                        <<"You are not authorized to access this project">>)
           ELSE Reply(r, 200, "none", <<"Project deleted successfully">>)]
      /\ UNCHANGED <<teams, tasks, call, io, sockets, logged, emitted, env>>

\* deleteProject: await Team.findById(project.teamId), up to the awaited
\* Project.findByIdAndDelete
deleteProject_team(s) ==
  LET r == req[s]
      team == findById(teams, r.teamId)
  IN  /\ At(s, "deleteProject", "team")
      /\ req' = [req EXCEPT ![s] =
           IF team.st # "live"
             THEN Reply(r, 404, "Not found", <<"Team not found">>)
           ELSE IF ~projectAllowed(team, r.user)
             THEN Reply([r EXCEPT !.team = team], 403, "Forbidden",
                        <<"You are not authorized to access this project">>)
           ELSE [r EXCEPT !.pc = "delete", !.team = team]]
      /\ UNCHANGED <<teams, projects, tasks, call, io, sockets, logged, emitted, env>>

\* deleteProject: await Project.findByIdAndDelete(projectId), the activity,
\* the event and the answer
deleteProject_delete(s) ==
  LET r == req[s]
  IN  /\ At(s, "deleteProject", "delete")
      /\ projects' = findByIdAndDelete_doc(projects, r.projId)
      /\ req' = [req EXCEPT ![s] =
                   Reply(r, 200, "none", <<"Project deleted successfully">>)]
      /\ LET docs == <<logActivity(r.user, r.teamId, "deleted", "project",
                                   r.projId, <<>>)>>
         IN  /\ InflightRoom(docs)
             /\ logged' = inserted(docs)
             /\ inflight' = started(s, docs)
      /\ emitted' = emitProjectDeleted(r.teamId)
      /\ UNCHANGED <<teams, tasks, call, io, sockets, fault, users, now>>

\* a variant of the assignee check that takes every existing user
assigneeCheck_anyUser(team, assignee) ==
  IF assignee \in {"absent", "null"} THEN "ok"
  ELSE IF assignee \notin Users THEN "notFound"
  ELSE "ok"

\* the assignee check of createTask and updateTask:
\* if (data.assignee) { User.findById; team.isMember(data.assignee) }
assigneeCheck(team, assignee) ==
  IF assignee \in {"absent", "null"} THEN "ok"
  ELSE IF assignee \notin Users THEN "notFound"
  ELSE IF ~isMember(team, assignee) THEN "invalid"
  ELSE "ok"

\* CreateTaskDto: status?: TaskStatus = TaskStatus.TODO
CreateTaskDtoStatus(status) == IF status = "absent" THEN "todo" ELSE status

\* POST /api/tasks, up to the awaited Team.findById
createTask_project(s, u, p, status, assignee) ==
  LET r == [Start(s, "createTask", u, "none") EXCEPT
              !.projId = p, !.status = CreateTaskDtoStatus(status),
              !.assignee = assignee]
      project == findById(projects, p)
  IN  /\ Free(s)
      /\ IF project.st # "live"
           THEN req' = [req EXCEPT ![s] =
                          Reply(r, 404, "Not found", <<"Project not found">>)]
           ELSE /\ Inserting("createTask") < FreeIds(tasks)
                /\ req' = [req EXCEPT ![s] =
                     [r EXCEPT !.pc = "team", !.proj = project,
                               !.teamId = project.teamId]]
      /\ UNCHANGED <<teams, projects, tasks, call, io, sockets, logged, emitted, env>>

\* createTask: await Team.findById(project.teamId), up to task.save()
createTask_team(s) ==
  LET r == req[s]
      team == findById(teams, r.teamId)
      chk == assigneeCheck(team, r.assignee)
  IN  /\ At(s, "createTask", "team")
      /\ req' = [req EXCEPT ![s] =
           IF team.st # "live"
             THEN Reply(r, 404, "Not found", <<"Team not found">>)
           ELSE IF ~isMember(team, r.user)
             THEN Reply(r, 403, "Forbidden",
                        <<"You are not a member of this team">>)
           ELSE IF chk = "notFound"
             THEN Reply(r, 404, "Not found", <<"Assignee not found">>)
           ELSE IF chk = "invalid"
             THEN Reply(r, 400, "Invalid Assignee",
                        <<"Assignee must be a member of the team">>)
           ELSE [r EXCEPT !.pc = "save", !.team = team]]
      /\ UNCHANGED <<teams, projects, tasks, call, io, sockets, logged, emitted, env>>

\* createTask: await task.save(), the activity, the populate of projectId
\* (whose _id is read, which throws when the project is gone), the event
\* and the answer
createTask_save(s) ==
  LET r == req[s]
      populated == findById(projects, r.projId).st = "live"
  IN  /\ At(s, "createTask", "save")
      /\ \E k \in TaskIds :
           /\ tasks[k].st = "free"
           /\ LET doc == [st |-> "live", status |-> r.status,
                          assignee |-> IF r.assignee = "absent" THEN "null"
                                       ELSE r.assignee,
                          projectId |-> r.projId, createdBy |-> r.user]
                  q == [r EXCEPT !.taskId = k, !.task = doc]
              IN  /\ tasks' = [tasks EXCEPT ![k] = doc]
                  /\ LET docs == <<logActivity(r.user, r.teamId, "created",
                                               "task", k,
                                               <<doc.status, doc.assignee>>)>>
                     IN  /\ InflightRoom(docs)
                         /\ logged' = inserted(docs)
                         /\ inflight' = started(s, docs)
                  /\ req' = [req EXCEPT ![s] =
                       IF populated
                         THEN Reply(q, 201, "none",
                                    <<"Task created successfully">>)
                         ELSE serverError(q)]
      /\ emitted' = IF populated THEN emitTaskCreated(r.teamId) ELSE <<>>
      /\ UNCHANGED <<teams, projects, call, io, sockets, fault, users, now>>

\* a variant of the gate that lets an unchanged status pass
updateTask_gate_noop(task, status) ==
  status = task.status \/ canTransitionTo(task.status, status)

\* updateTask: if (!task.canTransitionTo(updateData.status))
updateTask_gate(task, status) == canTransitionTo(task.status, status)

\* updateTaskStatus: if (!task.canTransitionTo(status))
updateTaskStatus_gate(task, status) == canTransitionTo(task.status, status)

\* the answer to a status the transition table does not allow
invalidTransition(r) ==
  Reply(r, 400, "Invalid Status Transition",
        <<"Cannot transition from ", r.task.status, " to ", r.status>>)

\* PUT /api/tasks/:taskId
\* Task.findById(taskId).populate('projectId', 'teamId'): the task query
updateTask_find(s, u, k, status, assignee) ==
  LET r == [Start(s, "updateTask", u, "none") EXCEPT
              !.taskId = k, !.status = status, !.assignee = assignee]
      task == findById(tasks, k)
  IN  /\ Free(s)
      /\ req' = [req EXCEPT ![s] =
           IF task.st # "live"
             THEN Reply(r, 404, "Not found", <<"Task not found">>)
             ELSE [r EXCEPT !.pc = "populate", !.task = task,
                            !.projId = task.projectId]]
      /\ UNCHANGED <<teams, projects, tasks, call, io, sockets, logged, emitted, env>>

\* updateTask: the populate query of the same await, and
\* (task.projectId as any).teamId, which throws when no project was found
updateTask_populate(s) ==
  LET r == req[s]
      project == findById(projects, r.projId)
  IN  /\ At(s, "updateTask", "populate")
      /\ req' = [req EXCEPT ![s] =
           IF project.st # "live"
             THEN serverError(r)
             ELSE [r EXCEPT !.pc = "team", !.proj = project,
                            !.teamId = project.teamId]]
      /\ UNCHANGED <<teams, projects, tasks, call, io, sockets, logged, emitted, env>>

\* updateTask: await Team.findById(...), up to the awaited task.save()
updateTask_team(s) ==
  LET r == req[s]
      team == findById(teams, r.teamId)
      chk == assigneeCheck(team, r.assignee)
  IN  /\ At(s, "updateTask", "team")
      /\ req' = [req EXCEPT ![s] =
           IF team.st # "live" \/ ~isMember(team, r.user)
             THEN Reply(r, 403, "Forbidden",
                        <<"You are not authorized to access this task">>)
           ELSE IF chk = "notFound"
             THEN Reply(r, 404, "Not found", <<"Assignee not found">>)
           ELSE IF chk = "invalid"
             THEN Reply(r, 400, "Invalid Assignee",
                        <<"Assignee must be a member of the team">>)
           ELSE IF r.status # "absent" /\ ~updateTask_gate(r.task, r.status)
             THEN invalidTransition(r)
           ELSE [r EXCEPT !.pc = "save", !.team = team]]
      /\ UNCHANGED <<teams, projects, tasks, call, io, sockets, logged, emitted, env>>

\* Mongoose Document.save() on a loaded task: $set of the modified paths,
\* the fields the handler assigned a value other than the loaded one
saveTask(stored, loaded, status, assignee) ==
  IF stored.st # "live"
    THEN [ok |-> FALSE, doc |-> stored]
    ELSE [ok |-> TRUE,
          doc |-> [stored EXCEPT
                     !.status = IF status # "absent" /\ status # loaded.status
                                  THEN status ELSE @,
                     !.assignee = IF assignee # "absent"
                                     /\ assignee # loaded.assignee
                                    THEN assignee ELSE @]]

\* const oldAssignee = task.assignee?.toString()
oldAssignee(task) == IF task.assignee = "null" THEN "undefined" ELSE task.assignee

\* updateTask: updateData.assignee !== undefined &&
\*             oldAssignee !== updateData.assignee
assigneeChanged(task, assignee) ==
  assignee # "absent" /\ oldAssignee(task) # assignee

\* updateTask: updateData.status !== undefined && oldStatus !== updateData.status
statusChanged(task, status) == status # "absent" /\ task.status # status

\* updateTask: the activities started after task.save()
updateTask_activities(r) ==
  <<logActivity(r.user, r.teamId, "updated", "task", r.taskId, <<>>)>>
  \o (IF assigneeChanged(r.task, r.assignee)
        THEN <<logActivity(r.user, r.teamId,
                           IF r.assignee = "null" THEN "unassigned"
                                                  ELSE "assigned",
                           "task", r.taskId,
                           <<oldAssignee(r.task), r.assignee>>)>>
        ELSE <<>>)
  \o (IF statusChanged(r.task, r.status)
        THEN <<logActivity(r.user, r.teamId, "status_changed", "task",
                           r.taskId, <<r.task.status, r.status>>)>>
        ELSE <<>>)

\* updateTask: the events emitted before the answer
updateTask_events(r) ==
  emitTaskUpdated(r.teamId)
  \o (IF statusChanged(r.task, r.status)
        THEN emitTaskStatusChanged(r.teamId) ELSE <<>>)
  \o (IF assigneeChanged(r.task, r.assignee) /\ r.assignee # "null"
        THEN emitTaskAssigned(r.teamId, r.assignee) ELSE <<>>)

\* the slots that saved task k and have not emitted their events yet
SavedBefore(k) ==
  {x \in Slots : /\ req[x].pc = "emit" /\ req[x].taskId = k}

\* the requests of the other slots once slot s has emitted its events
Emitted(s) == [x \in Slots |-> [req[x] EXCEPT !.after = @ \ {s}]]

\* updateTask: await task.save() and the activities started after it, up to
\* the awaited task.populate
updateTask_save(s) ==
  LET r == req[s]
      k == r.taskId
      res == saveTask(tasks[k], r.task, r.status, r.assignee)
      docs == IF res.ok THEN updateTask_activities(r) ELSE <<>>
  IN  /\ At(s, "updateTask", "save")
      /\ InflightRoom(docs)
      /\ tasks' = [tasks EXCEPT ![k] = res.doc]
      /\ req' = [req EXCEPT ![s] =
           IF res.ok
             THEN [r EXCEPT !.pc = "emit", !.after = SavedBefore(k)]
             ELSE serverError(r)]
      /\ logged' = inserted(docs)
      /\ inflight' = started(s, docs)
      /\ UNCHANGED <<teams, projects, call, io, sockets, emitted,
                     fault, users, now>>

\* updateTask: await task.populate(...) and the user lookup, the reading of
\* projectId._id (which throws when the project is gone), the events and the
\* answer
updateTask_emit(s) ==
  LET r == req[s]
      populated == findById(projects, r.projId).st = "live"
  IN  /\ At(s, "updateTask", "emit")
      /\ req' = [Emitted(s) EXCEPT ![s] =
           IF populated
             THEN Reply(r, 200, "none", <<"Task updated successfully">>)
             ELSE serverError(r)]
      /\ emitted' = IF populated THEN updateTask_events(r) ELSE <<>>
      /\ UNCHANGED <<teams, projects, tasks, call, io, sockets, logged, env>>

\* PATCH /api/tasks/:taskId/status
\* Task.findById(taskId).populate('projectId', 'teamId'): the task query
updateTaskStatus_find(s, u, k, status) ==
  LET r == [Start(s, "updateTaskStatus", u, "none") EXCEPT
              !.taskId = k, !.status = status, !.assignee = "absent"]
      task == findById(tasks, k)
  IN  /\ Free(s)
      /\ req' = [req EXCEPT ![s] =
           IF task.st # "live"
             THEN Reply(r, 404, "Not found", <<"Task not found">>)
             ELSE [r EXCEPT !.pc = "populate", !.task = task,
                            !.projId = task.projectId]]
      /\ UNCHANGED <<teams, projects, tasks, call, io, sockets, logged, emitted, env>>

\* updateTaskStatus: the populate query of the same await, and
\* (task.projectId as any).teamId, which throws when no project was found
updateTaskStatus_populate(s) ==
  LET r == req[s]
      project == findById(projects, r.projId)
  IN  /\ At(s, "updateTaskStatus", "populate")
      /\ req' = [req EXCEPT ![s] =
           IF project.st # "live"
             THEN serverError(r)
             ELSE [r EXCEPT !.pc = "team", !.proj = project,
                            !.teamId = project.teamId]]
      /\ UNCHANGED <<teams, projects, tasks, call, io, sockets, logged, emitted, env>>

\* updateTaskStatus: await Team.findById(...), up to the awaited task.save()
updateTaskStatus_team(s) ==
  LET r == req[s]
      team == findById(teams, r.teamId)
  IN  /\ At(s, "updateTaskStatus", "team")
      /\ req' = [req EXCEPT ![s] =
           IF team.st # "live" \/ ~isMember(team, r.user)
             THEN Reply(r, 403, "Forbidden",
                        <<"You are not authorized to access this task">>)
           ELSE IF ~updateTaskStatus_gate(r.task, r.status)
             THEN invalidTransition(r)
           ELSE [r EXCEPT !.pc = "save", !.team = team]]
      /\ UNCHANGED <<teams, projects, tasks, call, io, sockets, logged, emitted, env>>

\* updateTaskStatus: await task.save(), up to the awaited task.populate; the
\* handler starts no activity
updateTaskStatus_save(s) ==
  LET r == req[s]
      k == r.taskId
      res == saveTask(tasks[k], r.task, r.status, "absent")
  IN  /\ At(s, "updateTaskStatus", "save")
      /\ tasks' = [tasks EXCEPT ![k] = res.doc]
      /\ req' = [req EXCEPT ![s] =
           IF res.ok
             THEN [r EXCEPT !.pc = "emit", !.after = SavedBefore(k)]
             ELSE serverError(r)]
      /\ UNCHANGED <<teams, projects, call, io, sockets, logged, emitted, env>>

\* updateTaskStatus: await task.populate(...) and the user lookup, the
\* reading of projectId._id (which throws when the project is gone), the
\* event and the answer
updateTaskStatus_emit(s) ==
  LET r == req[s]
      populated == findById(projects, r.projId).st = "live"
  IN  /\ At(s, "updateTaskStatus", "emit")
      /\ req' = [Emitted(s) EXCEPT ![s] =
           IF populated
             THEN Reply(r, 200, "none", <<"Task status updated successfully">>)
             ELSE serverError(r)]
      /\ emitted' = IF populated THEN emitTaskStatusChanged(r.teamId) ELSE <<>>
      /\ UNCHANGED <<teams, projects, tasks, call, io, sockets, logged, env>>

\* GET /api/tasks/:taskId
\* Task.findById(taskId).populate('projectId', 'name teamId'): the task query
getTaskById_find(s, u, k) ==
  LET r == [Start(s, "getTaskById", u, "none") EXCEPT !.taskId = k]
      task == findById(tasks, k)
  IN  /\ Free(s)
      /\ req' = [req EXCEPT ![s] =
           IF task.st # "live"
             THEN Reply(r, 404, "Not found", <<"Task not found">>)
             ELSE [r EXCEPT !.pc = "populate", !.task = task,
                            !.projId = task.projectId]]
      /\ UNCHANGED <<teams, projects, tasks, call, io, sockets, logged, emitted, env>>

\* getTaskById: the populate query of the same await, and
\* (task.projectId as any).teamId, which throws when no project was found
getTaskById_populate(s) ==
  LET r == req[s]
      project == findById(projects, r.projId)
  IN  /\ At(s, "getTaskById", "populate")
      /\ req' = [req EXCEPT ![s] =
           IF project.st # "live"
             THEN serverError(r)
             ELSE [r EXCEPT !.pc = "team", !.proj = project,
                            !.teamId = project.teamId]]
      /\ UNCHANGED <<teams, projects, tasks, call, io, sockets, logged, emitted, env>>

\* getTaskById: await Team.findById(...), the membership check and the answer
getTaskById_team(s) ==
  LET r == req[s]
      team == findById(teams, r.teamId)
  IN  /\ At(s, "getTaskById", "team")
      /\ req' = [req EXCEPT ![s] =
           IF team.st # "live" \/ ~isMember(team, r.user)
             THEN Reply(r, 403, "Forbidden",
                        <<"You are not authorized to access this task">>)
             ELSE Reply([r EXCEPT !.team = team], 200, "none",
                        <<"Task fetched successfully">>)]
      /\ UNCHANGED <<teams, projects, tasks, call, io, sockets, logged, emitted, env>>

\* a variant of the permission check that also lets the assignee pass
deleteTask_allowed_assignee(team, task, u) ==
  isAdminOrOwner(team, u) \/ task.createdBy = u \/ task.assignee = u

\* deleteTask: if (!team.isAdminOrOwner(userId) &&
\*                 task.createdBy.toString() !== userId)
deleteTask_allowed(team, task, u) ==
  isAdminOrOwner(team, u) \/ task.createdBy = u

\* DELETE /api/tasks/:taskId
\* Task.findById(taskId).populate('projectId', 'teamId'): the task query
deleteTask_find(s, u, k) ==
  LET r == [Start(s, "deleteTask", u, "none") EXCEPT !.taskId = k]
      task == findById(tasks, k)
  IN  /\ Free(s)
      /\ req' = [req EXCEPT ![s] =
           IF task.st # "live"
             THEN Reply(r, 404, "Not found", <<"Task not found">>)
             ELSE [r EXCEPT !.pc = "populate", !.task = task,
                            !.projId = task.projectId]]
      /\ UNCHANGED <<teams, projects, tasks, call, io, sockets, logged, emitted, env>>

\* deleteTask: the populate query of the same await, and
\* (task.projectId as any).teamId, which throws when no project was found
deleteTask_populate(s) ==
  LET r == req[s]
      project == findById(projects, r.projId)
  IN  /\ At(s, "deleteTask", "populate")
      /\ req' = [req EXCEPT ![s] =
           IF project.st # "live"
             THEN serverError(r)
             ELSE [r EXCEPT !.pc = "team", !.proj = project,
                            !.teamId = project.teamId]]
      /\ UNCHANGED <<teams, projects, tasks, call, io, sockets, logged, emitted, env>>

\* deleteTask: await Team.findById(...), up to the awaited
\* Task.findByIdAndDelete
deleteTask_team(s) ==
  LET r == req[s]
      team == findById(teams, r.teamId)
  IN  /\ At(s, "deleteTask", "team")
      /\ req' = [req EXCEPT ![s] =
           IF team.st # "live"
             THEN Reply(r, 404, "Not found", <<"Team not found">>)
           ELSE IF ~deleteTask_allowed(team, r.task, r.user)
             THEN Reply([r EXCEPT !.team = team], 403, "Forbidden",
                        <<"Only team admins/owners or task creator can delete tasks">>)
           ELSE [r EXCEPT !.pc = "delete", !.team = team]]
      /\ UNCHANGED <<teams, projects, tasks, call, io, sockets, logged, emitted, env>>

\* deleteTask: await Task.findByIdAndDelete(taskId), the activity, the event
\* and the answer
deleteTask_delete(s) ==
  LET r == req[s]
  IN  /\ At(s, "deleteTask", "delete")
      /\ tasks' = findByIdAndDelete_doc(tasks, r.taskId)
      /\ req' = [req EXCEPT ![s] =
                   Reply(r, 200, "none", <<"Task deleted successfully">>)]
      /\ LET docs == <<logActivity(r.user, r.teamId, "deleted", "task",
                                   r.taskId, <<>>)>>
         IN  /\ InflightRoom(docs)
             /\ logged' = inserted(docs)
             /\ inflight' = started(s, docs)
      /\ emitted' = emitTaskDeleted(r.teamId)
      /\ UNCHANGED <<teams, projects, call, io, sockets, fault, users, now>>

(***************************************************************************)
(* The Socket.IO connection handlers.                                      *)
(***************************************************************************)
\* io.on('connection'): the socket of a verified user joins its user room
connection(c, u) ==
  /\ Quiet /\ io
  /\ sockets[c].user = NoUser
  /\ sockets' = [sockets EXCEPT ![c] =
                   [user |-> u, rooms |-> {userRoom(u)}, last |-> <<>>]]
  /\ UNCHANGED <<teams, projects, tasks, req, call, io, logged, emitted, env>>

\* a variant of the membership check of the join handler that admits everyone
JOIN_TEAM_allowed_all(team, userId) == TRUE

\* JOIN_TEAM: if (!team.isMember(userId))
JOIN_TEAM_allowed(team, userId) == isMember(team, userId)

\* socket.on('team:join'): await Team.findById(teamId), the membership check
\* and socket.join; teamId "absent" stands for a missing teamId
JOIN_TEAM(c, teamId) ==
  LET userId == sockets[c].user
      team == IF teamId \in TeamIds THEN findById(teams, teamId) ELSE NoTeam
  IN  /\ Quiet /\ userId # NoUser
      /\ sockets' = [sockets EXCEPT ![c] =
           IF teamId = "absent"
             THEN [@ EXCEPT !.last =
                     <<"error", "Invalid team ID or user not authenticated">>]
           ELSE IF team.st # "live"
             THEN [@ EXCEPT !.last = <<"error", "Team not found">>]
           ELSE IF ~JOIN_TEAM_allowed(team, userId)
             THEN [@ EXCEPT !.last =
                     <<"error", "You are not a member of this team">>]
           ELSE [@ EXCEPT !.rooms = @ \cup {teamRoom(teamId)},
                          !.last = <<"team:joined", teamId>>]]
      /\ UNCHANGED <<teams, projects, tasks, req, call, io, logged, emitted, env>>

\* socket.on('team:leave'): socket.leave
LEAVE_TEAM(c, teamId) ==
  /\ Quiet /\ sockets[c].user # NoUser
  /\ sockets' = [sockets EXCEPT ![c] =
       IF teamId = "absent"
         THEN [@ EXCEPT !.last = <<"error", "Invalid team ID">>]
         ELSE [@ EXCEPT !.rooms = @ \ {teamRoom(teamId)},
                        !.last = <<"team:left", teamId>>]]
  /\ UNCHANGED <<teams, projects, tasks, req, call, io, logged, emitted, env>>

\* socket.on('disconnect'): the client went away and Socket.IO has taken the
\* socket out of its rooms
disconnect(c) ==
  /\ Quiet /\ sockets[c].user # NoUser
  /\ sockets' = [sockets EXCEPT ![c] =
                   [NoSocket EXCEPT !.last = <<"disconnect">>]]
  /\ UNCHANGED <<teams, projects, tasks, req, call, io, logged, emitted, env>>

(***************************************************************************)
(* AuthController: registration in two steps with a one time code.  The   *)
(* clock counts minutes; a request is short against a minute, so the      *)
(* clock advances between requests.                                        *)
(***************************************************************************)
\* the last minute the model follows
MaxTime == 12

\* generateOTPExpiry: Date.now() + 10 * 60 * 1000
OTPTtl == 10

\* the time that passes between two requests: a minute, or the life of a code
TimeSteps == {1, OTPTtl}

\* generateOTPExpiry()
generateOTPExpiry == <<now + OTPTtl>>

\* a variant for which no code ever expires
isOTPExpired_never(otpExpiry) == FALSE

\* isOTPExpired(otpExpiry): new Date() > otpExpiry
isOTPExpired(otpExpiry) == now > otpExpiry[1]

\* hashOTP(otp): the sha256 digest of the code
hashOTP(otp) == <<"sha256", otp>>

\* the pre save hook of the user schema: the stored form of a password
hashPassword(password) == <<"bcrypt", password>>

\* user.comparePassword(candidatePassword)
comparePassword(user, candidatePassword) ==
  user.password = hashPassword(candidatePassword)

\* Document.save() of a loaded user: $set / $unset of the paths the handler
\* assigned
saveUser(stored, local, paths) ==
  [f \in DOMAIN stored |-> IF f \in paths THEN local[f] ELSE stored[f]]

\* a variant that takes every email for a new one
register_exists_never(existingUser) == FALSE

\* register: if (existingUser && existingUser.isVerified)
register_exists(existingUser) ==
  existingUser.st = "live" /\ existingUser.isVerified

\* the clock advances
tick(d) ==
  /\ \A s \in Slots : req[s].pc = "idle"
  /\ now + d <= MaxTime
  /\ now' = now + d
  /\ UNCHANGED <<teams, projects, tasks, req, call, io, sockets, logged,
                 emitted, fault, inflight, users>>

\* POST /api/auth/register, up to the awaited save(); otp is the code
\* generateOTP() drew
register_find(s, name, email, otp) ==
  LET r == [Blank EXCEPT !.op = "register", !.name = name, !.email = email]
      existingUser == users[email]
      local == [existingUser EXCEPT !.st = "live", !.name = name,
                                    !.otp = hashOTP(otp),
                                    !.otpExpiry = generateOTPExpiry]
  IN  /\ Free(s)
      /\ req' = [req EXCEPT ![s] =
           IF register_exists(existingUser)
             THEN Reply(r, 409, "Email already exists",
                        <<"Email already exists">>)
             ELSE [r EXCEPT !.pc = IF existingUser.st = "live" THEN "save"
                                                               ELSE "insert",
                            !.otp = otp, !.account = local]]
      /\ UNCHANGED <<teams, projects, tasks, call, io, sockets, logged, emitted, env>>

\* register: await existingUser.save() or await user.save() of a new User
\* (the unique index on email rejects a second insert), and the answer
register_save(s) ==
  LET r == req[s]
      stored == users[r.email]
      duplicate == r.pc = "insert" /\ stored.st = "live"
  IN  /\ At(s, "register", "save") \/ At(s, "register", "insert")
      /\ users' = [users EXCEPT ![r.email] =
                      IF duplicate THEN stored
                      ELSE IF r.pc = "insert" THEN r.account
                      ELSE saveUser(stored, r.account,
                                    {"name", "otp", "otpExpiry"})]
      /\ req' = [req EXCEPT ![s] =
           IF duplicate
             THEN serverError(r)
             ELSE Reply(r, 201, "none",
                        <<"OTP sent to your email. Please verify to complete registration.">>)]
      /\ UNCHANGED <<teams, projects, tasks, call, io, sockets, logged,
                     emitted, fault, inflight, now>>

\* POST /api/auth/resend-otp, up to the awaited save()
resendOTP_find(s, email, otp) ==
  LET r == [Blank EXCEPT !.op = "resendOTP", !.email = email]
      user == users[email]
  IN  /\ Free(s)
      /\ req' = [req EXCEPT ![s] =
           IF user.st # "live"
             THEN Reply(r, 404, "User not found",
                        <<"User not found. Please register first.">>)
           ELSE IF user.isVerified
             THEN Reply(r, 400, "Already verified",
                        <<"User already verified. Please login.">>)
           ELSE [r EXCEPT !.pc = "save", !.otp = otp,
                          !.account = [user EXCEPT
                             !.otp = hashOTP(otp),
                             !.otpExpiry = generateOTPExpiry]]]
      /\ UNCHANGED <<teams, projects, tasks, call, io, sockets, logged, emitted, env>>

\* resendOTP: await user.save() and the answer
resendOTP_save(s) ==
  LET r == req[s]
  IN  /\ At(s, "resendOTP", "save")
      /\ users' = [users EXCEPT ![r.email] =
                      saveUser(@, r.account, {"otp", "otpExpiry"})]
      /\ req' = [req EXCEPT ![s] =
           Reply(r, 200, "none",
                 <<"OTP resent to your email. Please verify to complete registration.">>)]
      /\ UNCHANGED <<teams, projects, tasks, call, io, sockets, logged,
                     emitted, fault, inflight, now>>

\* POST /api/auth/verify-otp, up to the awaited save(); password is the
\* password generateSecurePassword() drew
verifyOTP_find(s, email, otp, password) ==
  LET r == [Blank EXCEPT !.op = "verifyOTP", !.email = email, !.otp = otp]
      user == users[email]
  IN  /\ Free(s)
      /\ req' = [req EXCEPT ![s] =
           IF user.st # "live"
             THEN Reply(r, 404, "User not found",
                        <<"User not found. Please register first.">>)
           ELSE IF user.isVerified
             THEN Reply(r, 400, "Already verified",
                        <<"User already verified. Please login.">>)
           ELSE IF user.otp = <<>> \/ user.otpExpiry = <<>>
             THEN Reply(r, 400, "OTP not found",
                        <<"No OTP found. Please register again.">>)
           ELSE IF isOTPExpired(user.otpExpiry)
             THEN Reply(r, 400, "OTP expired",
                        <<"OTP has expired. Please register again.">>)
           ELSE IF user.otp # hashOTP(otp)
             THEN Reply(r, 400, "Invalid OTP",
                        <<"Invalid OTP. Please try again.">>)
           ELSE [r EXCEPT !.pc = "save", !.password = password,
                          !.account = [user EXCEPT
                             !.isVerified = TRUE,
                             !.password = hashPassword(password),
                             !.otp = <<>>, !.otpExpiry = <<>>]]]
      /\ UNCHANGED <<teams, projects, tasks, call, io, sockets, logged, emitted, env>>

\* verifyOTP: await user.save() and the answer
verifyOTP_save(s) ==
  LET r == req[s]
  IN  /\ At(s, "verifyOTP", "save")
      /\ users' = [users EXCEPT ![r.email] =
                      saveUser(@, r.account,
                               {"isVerified", "password", "otp", "otpExpiry"})]
      /\ req' = [req EXCEPT ![s] =
           Reply(r, 200, "none",
                 <<"Email verified successfully! Your password has been sent to your email.">>)]
      /\ UNCHANGED <<teams, projects, tasks, call, io, sockets, logged,
                     emitted, fault, inflight, now>>

\* POST /api/auth/login
login(s, email, password) ==
  LET r == [Blank EXCEPT !.op = "login", !.email = email,
                         !.password = password]
      user == users[email]
  IN  /\ Free(s)
      /\ req' = [req EXCEPT ![s] =
           IF user.st # "live"
             THEN Reply(r, 401, "Unauthorized", <<"Invalid email or password">>)
           ELSE IF ~user.isVerified
             THEN Reply(r, 403, "Email not verified",
                        <<"Email not verified. Please verify your email first.">>)
           ELSE IF user.password = <<>>
             THEN Reply(r, 400, "Password not set",
                        <<"Account setup incomplete. Please complete registration.">>)
           ELSE IF ~comparePassword(user, password)
             THEN Reply(r, 401, "Unauthorized", <<"Invalid email or password">>)
           ELSE Reply(r, 200, "none", <<"Login successful">>)]
      /\ UNCHANGED <<teams, projects, tasks, call, io, sockets, logged, emitted, env>>

(***************************************************************************)
(* The team controller under concurrent requests.                          *)
(***************************************************************************)
NoCall == [fn |-> "none", status |-> "todo", newStatus |-> "todo",
           team |-> NoTeam, userId |-> NoUser, result |-> FALSE]

Init ==
  /\ teams = [t \in TeamIds |-> NoTeam]
  /\ projects = [p \in ProjIds |-> NoProject]
  /\ tasks = [k \in TaskIds |-> NoTask]
  /\ req = [s \in Slots |-> Blank]
  /\ call = NoCall
  /\ io = TRUE
  /\ sockets = [c \in Conns |-> NoSocket]
  /\ logged = <<>>
  /\ emitted = <<>>
  /\ fault = "none"
  /\ inflight = <<>>
  /\ users = [e \in Emails |-> NoUserDoc]
  /\ now = 0

\* res.status(code).json(body): the response of slot s is written and the
\* handler returns.  A response is written before any other handler resumes,
\* so that every response is a state of its own.
respond(s) ==
  /\ req[s].pc = "done"
  /\ req' = [req EXCEPT ![s] = Blank]
  /\ logged' = <<>>
  /\ emitted' = <<>>
  /\ inflight' = answered(s)
  /\ UNCHANGED <<teams, projects, tasks, call, io, sockets, fault, users, now>>

TeamStep(s) ==
    \/ \E u \in Creators : createTeam(s, u)
    \/ \E u \in Users, t \in TeamIds : deleteTeam_load(s, u, t)
    \/ deleteTeam_delete(s)
    \/ \E u \in Users, t \in TeamIds, email \in Users \cup {NoUser},
          rawRole \in RawRoles : inviteMember_load(s, u, t, email, rawRole)
    \/ inviteMember_save(s)
    \/ \E u \in Users, t \in TeamIds, memberId \in Users :
          removeMember_load(s, u, t, memberId)
    \/ removeMember_save(s)
    \/ \E u \in Users, t \in TeamIds, memberId \in Users,
          rawRole \in RawRoles : updateMemberRole_load(s, u, t, memberId, rawRole)
    \/ updateMemberRole_save(s)
    \/ \E u \in Users, t \in TeamIds : leaveTeam_load(s, u, t)
    \/ leaveTeam_save(s)

NextTeam == \E s \in Slots : TeamStep(s) \/ respond(s)

SpecTeam == Init /\ [][NextTeam]_vars

(***************************************************************************)
(* The task controller under concurrent requests, on the projects of a    *)
(* team whose only member is its owner.                                   *)
(***************************************************************************)
\* the users that send task requests: the owner and a user outside the team
Requesters == {"u1", "u2"}
\* assignee values of a request body: none, a member, a user outside the team
Assignees == {"absent", "u1", "u2"}

TaskStep(s) ==
    \/ \E u \in Creators : createTeam(s, u)
    \/ \E u \in Requesters, t \in TeamIds, name \in CreateNames :
          createProject_load(s, u, t, name)
    \/ createProject_save(s)
    \/ \E u \in Requesters, p \in ProjIds, status \in TaskStatus \cup {"absent"},
          assignee \in Assignees : createTask_project(s, u, p, status, assignee)
    \/ createTask_team(s)
    \/ createTask_save(s)
    \/ \E u \in Requesters, k \in TaskIds, status \in TaskStatus \cup {"absent"},
          assignee \in Assignees : updateTask_find(s, u, k, status, assignee)
    \/ updateTask_populate(s)
    \/ updateTask_team(s)
    \/ updateTask_save(s)
    \/ updateTask_emit(s)
    \/ \E u \in Requesters, k \in TaskIds, status \in TaskStatus :
          updateTaskStatus_find(s, u, k, status)
    \/ updateTaskStatus_populate(s)
    \/ updateTaskStatus_team(s)
    \/ updateTaskStatus_save(s)
    \/ updateTaskStatus_emit(s)

NextTask == \E s \in Slots : TaskStep(s) \/ respond(s)

SpecTask == Init /\ [][NextTask]_vars

(***************************************************************************)
(* The model methods on their own: a call of a method of the Task or Team *)
(* model on a document the schema admits.                                 *)
(***************************************************************************)
\* members: [teamMemberSchema], default []
MemberEntries == [userId : Users, role : TeamMemberRole]

MemberLists == UNION {[1..n -> MemberEntries] : n \in 0..MaxMembers}

TeamValues == [st : {"live"}, owner : Users, members : MemberLists, v : {0}]

InitModel ==
  /\ teams = [t \in TeamIds |-> NoTeam]
  /\ projects = [p \in ProjIds |-> NoProject]
  /\ tasks = [k \in TaskIds |-> NoTask]
  /\ req = [s \in Slots |-> Blank]
  /\ call \in [fn : {"none"}, status : TaskStatus, newStatus : TaskStatus,
               team : TeamValues, userId : Users, result : {FALSE}]
  /\ io = TRUE
  /\ sockets = [c \in Conns |-> NoSocket]
  /\ logged = <<>>
  /\ emitted = <<>>
  /\ fault = "none"
  /\ inflight = <<>>
  /\ users = [e \in Emails |-> NoUserDoc]
  /\ now = 0

call_canTransitionTo ==
  /\ call.fn = "none"
  /\ call' = [call EXCEPT !.fn = "canTransitionTo",
                          !.result = canTransitionTo(call.status, call.newStatus)]
  /\ UNCHANGED <<teams, projects, tasks, req, io, sockets, logged, emitted, env>>

call_isMember ==
  /\ call.fn = "none"
  /\ call' = [call EXCEPT !.fn = "isMember",
                          !.result = isMember(call.team, call.userId)]
  /\ UNCHANGED <<teams, projects, tasks, req, io, sockets, logged, emitted, env>>

call_isAdminOrOwner ==
  /\ call.fn = "none"
  /\ call' = [call EXCEPT !.fn = "isAdminOrOwner",
                          !.result = isAdminOrOwner(call.team, call.userId)]
  /\ UNCHANGED <<teams, projects, tasks, req, io, sockets, logged, emitted, env>>

NextModel == call_canTransitionTo \/ call_isMember \/ call_isAdminOrOwner

SpecModel == InitModel /\ [][NextModel]_vars

(***************************************************************************)
(* The three controllers, one request at a time: the requests of every    *)
(* user on a team, its project and its task.                              *)
(***************************************************************************)
\* the slot of the request being handled
Serial == {"a"}

\* assignee values of a request body: none, an explicit null, two users
SerialAssignees == {"absent", "null", "u2", "u3"}

\* status values of a createTask / updateTask body and of an
\* updateTaskStatus body
SerialStatus == {"absent", "in_progress"}
SerialNewStatus == {"in_progress", "review"}

\* role values of an invite body and of a role update body
SerialInviteRoles == {"absent", "admin"}
SerialUpdateRoles == {"admin", "member"}

SerialTeamStep(s) ==
    \/ \E u \in Creators : createTeam(s, u)
    \/ \E u \in Users, t \in TeamIds : deleteTeam_load(s, u, t)
    \/ deleteTeam_delete(s)
    \/ \E u \in Users, t \in TeamIds, email \in Users,
          rawRole \in SerialInviteRoles :
          inviteMember_load(s, u, t, email, rawRole)
    \/ inviteMember_save(s)
    \/ \E u \in Users, t \in TeamIds, memberId \in Users :
          removeMember_load(s, u, t, memberId)
    \/ removeMember_save(s)
    \/ \E u \in Users, t \in TeamIds, memberId \in Users,
          rawRole \in SerialUpdateRoles :
          updateMemberRole_load(s, u, t, memberId, rawRole)
    \/ updateMemberRole_save(s)
    \/ \E u \in Users, t \in TeamIds : leaveTeam_load(s, u, t)
    \/ leaveTeam_save(s)
    \/ \E u \in Users, t \in TeamIds : updateTeam_load(s, u, t)
    \/ updateTeam_save(s)

ProjectStep(s) ==
    \/ \E u \in Users, t \in TeamIds, name \in CreateNames :
          createProject_load(s, u, t, name)
    \/ createProject_save(s)
    \/ \E u \in Users, p \in ProjIds, name \in UpdateNames :
          updateProject_find(s, u, p, name)
    \/ updateProject_team(s)
    \/ updateProject_save(s)
    \/ \E u \in Users, p \in ProjIds : deleteProject_find(s, u, p)
    \/ deleteProject_team(s)
    \/ deleteProject_delete(s)

SerialTaskStep(s) ==
    \/ \E u \in Users, p \in ProjIds, status \in SerialStatus,
          assignee \in SerialAssignees :
          createTask_project(s, u, p, status, assignee)
    \/ createTask_team(s)
    \/ createTask_save(s)
    \/ \E u \in Users, k \in TaskIds, status \in SerialStatus,
          assignee \in SerialAssignees :
          updateTask_find(s, u, k, status, assignee)
    \/ updateTask_populate(s)
    \/ updateTask_team(s)
    \/ updateTask_save(s)
    \/ updateTask_emit(s)
    \/ \E u \in Users, k \in TaskIds, status \in SerialNewStatus :
          updateTaskStatus_find(s, u, k, status)
    \/ updateTaskStatus_populate(s)
    \/ updateTaskStatus_team(s)
    \/ updateTaskStatus_save(s)
    \/ updateTaskStatus_emit(s)
    \/ \E u \in Users, k \in TaskIds : deleteTask_find(s, u, k)
    \/ deleteTask_populate(s)
    \/ deleteTask_team(s)
    \/ deleteTask_delete(s)
    \/ \E u \in Users, k \in TaskIds : getTaskById_find(s, u, k)
    \/ getTaskById_populate(s)
    \/ getTaskById_team(s)

UpdateTeamStep(s) ==
    \/ \E u \in Users, t \in TeamIds : updateTeam_load(s, u, t)
    \/ updateTeam_save(s)

NextSerial ==
  \E s \in Serial :
    SerialTeamStep(s) \/ ProjectStep(s) \/ SerialTaskStep(s) \/ respond(s)

SpecSerial == Init /\ [][NextSerial]_vars

(***************************************************************************)
(* The Socket.IO connections next to the team controller.                 *)
(***************************************************************************)
SocketStep(c) ==
    \/ \E u \in Users : connection(c, u)
    \/ \E teamId \in TeamIds \cup {"absent"} : JOIN_TEAM(c, teamId)
    \/ \E teamId \in TeamIds \cup {"absent"} : LEAVE_TEAM(c, teamId)
    \/ disconnect(c)

NextSocket ==
    \/ \E s \in Serial : TeamStep(s) \/ UpdateTeamStep(s) \/ respond(s)
    \/ \E c \in Conns : SocketStep(c)

SpecSocket == Init /\ [][NextSocket]_vars

(***************************************************************************)
(* The project and task controllers, one request at a time, next to side  *)
(* effect services that fail: the socket server may not have been         *)
(* initialized, an emit may throw, an activity insert may reject or be    *)
(* acknowledged late.                                                      *)
(***************************************************************************)
InitFaults ==
  /\ teams = [t \in TeamIds |-> NoTeam]
  /\ projects = [p \in ProjIds |-> NoProject]
  /\ tasks = [k \in TaskIds |-> NoTask]
  /\ req = [s \in Slots |-> Blank]
  /\ call = NoCall
  /\ io \in BOOLEAN
  /\ sockets = [c \in Conns |-> NoSocket]
  /\ logged = <<>>
  /\ emitted = <<>>
  /\ fault = "none"
  /\ inflight = <<>>
  /\ users = [e \in Emails |-> NoUserDoc]
  /\ now = 0

\* the side effect services change their behaviour between two requests
setFault(f) ==
  /\ \A s \in Slots : req[s].pc = "idle"
  /\ fault # f
  /\ fault' = f
  /\ UNCHANGED <<teams, projects, tasks, req, call, io, sockets, logged,
                 emitted, inflight, users, now>>

\* activity.save() of the i-th insert in flight is acknowledged
Activity_save(i) ==
  /\ Quiet
  /\ i \in DOMAIN inflight
  /\ logged' = <<inflight[i].doc>>
  /\ inflight' = splice(inflight, i)
  /\ UNCHANGED <<teams, projects, tasks, req, call, io, sockets, emitted,
                 fault, users, now>>

\* assignee and status values of the bodies sent to the failing services
FaultAssignees == {"absent", "u1"}
FaultStatus == {"absent", "in_progress"}

FaultStep(s) ==
    \/ \E u \in Creators : createTeam(s, u)
    \/ \E u \in Creators, t \in TeamIds, name \in CreateNames :
          createProject_load(s, u, t, name)
    \/ createProject_save(s)
    \/ \E u \in Creators, p \in ProjIds, name \in UpdateNames :
          updateProject_find(s, u, p, name)
    \/ updateProject_team(s)
    \/ updateProject_save(s)
    \/ \E u \in Creators, p \in ProjIds : deleteProject_find(s, u, p)
    \/ deleteProject_team(s)
    \/ deleteProject_delete(s)
    \/ \E u \in Creators, p \in ProjIds, status \in FaultStatus,
          assignee \in FaultAssignees :
          createTask_project(s, u, p, status, assignee)
    \/ createTask_team(s)
    \/ createTask_save(s)
    \/ \E u \in Creators, k \in TaskIds, status \in FaultStatus,
          assignee \in FaultAssignees :
          updateTask_find(s, u, k, status, assignee)
    \/ updateTask_populate(s)
    \/ updateTask_team(s)
    \/ updateTask_save(s)
    \/ updateTask_emit(s)
    \/ \E u \in Creators, k \in TaskIds, status \in SerialNewStatus :
          updateTaskStatus_find(s, u, k, status)
    \/ updateTaskStatus_populate(s)
    \/ updateTaskStatus_team(s)
    \/ updateTaskStatus_save(s)
    \/ updateTaskStatus_emit(s)
    \/ \E u \in Creators, k \in TaskIds : deleteTask_find(s, u, k)
    \/ deleteTask_populate(s)
    \/ deleteTask_team(s)
    \/ deleteTask_delete(s)

\* the faults after which nothing of the side effect is left to happen
Failures == Faults \ {"slow"}

NextFaults ==
    \/ \E s \in Serial : FaultStep(s) \/ respond(s)
    \/ \E f \in Failures : setFault(f)

SpecFaults == InitFaults /\ [][NextFaults]_vars

(***************************************************************************)
(* The task controller, one request at a time, next to an activities      *)
(* collection that acknowledges its inserts late.                         *)
(***************************************************************************)
SlowStep(s) ==
    \/ \E u \in Creators : createTeam(s, u)
    \/ \E u \in Creators, t \in TeamIds, name \in CreateNames :
          createProject_load(s, u, t, name)
    \/ createProject_save(s)
    \/ \E u \in Creators, p \in ProjIds, status \in FaultStatus,
          assignee \in FaultAssignees :
          createTask_project(s, u, p, status, assignee)
    \/ createTask_team(s)
    \/ createTask_save(s)
    \/ \E u \in Creators, k \in TaskIds, status \in FaultStatus,
          assignee \in FaultAssignees :
          updateTask_find(s, u, k, status, assignee)
    \/ updateTask_populate(s)
    \/ updateTask_team(s)
    \/ updateTask_save(s)
    \/ updateTask_emit(s)
    \/ \E u \in Creators, k \in TaskIds : deleteTask_find(s, u, k)
    \/ deleteTask_populate(s)
    \/ deleteTask_team(s)
    \/ deleteTask_delete(s)

NextSlow ==
    \/ \E s \in Serial : SlowStep(s) \/ respond(s)
    \/ \E f \in {"none", "slow"} : setFault(f)
    \/ \E i \in 1..MaxInflight : Activity_save(i)

SpecSlow == Init /\ [][NextSlow]_vars

(***************************************************************************)
(* The auth controller, one request at a time.                             *)
(***************************************************************************)
AuthStep(s) ==
    \/ \E name \in Names, email \in Emails, otp \in Codes :
          register_find(s, name, email, otp)
    \/ register_save(s)
    \/ \E email \in Emails, otp \in Codes : resendOTP_find(s, email, otp)
    \/ resendOTP_save(s)
    \/ \E email \in Emails, otp \in Codes, password \in Passwords :
          verifyOTP_find(s, email, otp, password)
    \/ verifyOTP_save(s)
    \/ \E email \in Emails, password \in Passwords : login(s, email, password)

NextAuth ==
    \/ \E s \in Serial : AuthStep(s) \/ respond(s)
    \/ \E d \in TimeSteps : tick(d)

SpecAuth == Init /\ [][NextAuth]_vars

(***************************************************************************)
(* The whole system.                                                       *)
(***************************************************************************)
Next ==
    \/ \E s \in Slots :
         TeamStep(s) \/ UpdateTeamStep(s) \/ ProjectStep(s)
           \/ SerialTaskStep(s) \/ respond(s)
    \/ \E c \in Conns : SocketStep(c)

Spec == Init /\ [][Next]_vars

(***************************************************************************)
(* Properties.                                                             *)
(***************************************************************************)
\* the response of slot s has been sent in this step
Replied(s) == req[s].pc # "done" /\ req'[s].pc = "done"

\* the requests through which a task status is changed
StatusOps == {"updateTask", "updateTaskStatus"}

\* a finished status request that got as far as the transition check
AtGate(r) ==
  /\ r.pc = "done" /\ r.op \in StatusOps /\ r.status # "absent"
  /\ r.code \notin {403, 404, 500}
  /\ r.err # "Invalid Assignee"

\* the edges listed for the transition table
ListedEdges ==
  {<<"todo", "in_progress">>, <<"todo", "done">>,
   <<"in_progress", "todo">>, <<"in_progress", "review">>,
   <<"in_progress", "done">>,
   <<"review", "in_progress">>, <<"review", "done">>,
   <<"done", "todo">>, <<"done", "in_progress">>, <<"done", "review">>}

C2_SameDecision ==
  /\ [](\A s \in Slots :
          AtGate(req[s]) =>
            IF canTransitionTo(req[s].task.status, req[s].status)
              THEN req[s].code = 200
              ELSE /\ req[s].code = 400
                   /\ req[s].err = "Invalid Status Transition"
                   /\ req[s].msg = <<"Cannot transition from ",
                                     req[s].task.status, " to ", req[s].status>>)
  /\ [][\A s \in Slots :
          (Replied(s) /\ req'[s].op \in StatusOps /\ req'[s].code = 400)
            => tasks' = tasks]_vars

\* a same-status request through the general update is answered 400
C2_Witness ==
  \E s \in Slots :
    /\ AtGate(req[s]) /\ req[s].op = "updateTask"
    /\ req[s].status = req[s].task.status
    /\ req[s].code = 400
    /\ tasks[req[s].taskId].status = req[s].task.status

\* C3: every change of a stored task's status is an edge of the table.
C3_StoredStatusFollowsTable ==
  [][\A k \in TaskIds :
       (tasks[k].st = "live" /\ tasks'[k].st = "live"
        /\ tasks'[k].status # tasks[k].status)
         => canTransitionTo(tasks[k].status, tasks'[k].status)]_vars

C5_OwnerIsMember ==
  call.fn = "isMember" =>
    (call.result <=>
       \/ call.userId = call.team.owner
       \/ \E i \in DOMAIN call.team.members :
            call.team.members[i].userId = call.userId)

\* C6: no user id occurs in two entries of a team's members.
C6_NoDuplicateMember ==
  \A t \in TeamIds :
    teams[t].st = "live" =>
      \A i, j \in DOMAIN teams[t].members :
        i # j => teams[t].members[i].userId # teams[t].members[j].userId

\* the user ids of a members array, in order
Ids(members) == [i \in DOMAIN members |-> members[i].userId]

MemberOps == {"inviteMember", "removeMember", "leaveTeam", "updateMemberRole"}

OnOwner(r, team) ==
  \/ r.op \in {"removeMember", "updateMemberRole"} /\ r.memberId = team.owner
  \/ r.op = "leaveTeam" /\ r.user = team.owner

\* C8: removeMember and updateMemberRole on the owner's id and leaveTeam by
\* the owner are answered 400 or 403, never reach their save, and the step
\* that answers leaves the teams as they were; the owner field and the
\* owner's entry of a stored team never change.
C8_OwnerUntouched ==
  /\ [](\A s \in Slots :
          /\ (req[s].pc = "done" /\ req[s].teamId \in TeamIds
              /\ OnOwner(req[s], teams[req[s].teamId]))
               => req[s].code \in {400, 403}
          /\ req[s].pc = "save" => ~OnOwner(req[s], req[s].team))
  /\ [][/\ \A s \in Slots :
            (Replied(s) /\ req'[s].teamId \in TeamIds
             /\ OnOwner(req'[s], teams[req'[s].teamId])) => teams' = teams
        /\ \A t \in TeamIds :
            (teams[t].st = "live" /\ teams'[t].st = "live") =>
              /\ teams'[t].owner = teams[t].owner
              /\ teams'[t].members[1] = teams[t].members[1]]_vars

\* an admin asks to remove the owner and is answered 400
C8_Witness ==
  \E s \in Slots :
    /\ req[s].pc = "done" /\ req[s].op = "removeMember"
    /\ req[s].teamId \in TeamIds
    /\ req[s].memberId = teams[req[s].teamId].owner
    /\ req[s].user # req[s].memberId
    /\ req[s].code = 400
    /\ isMember(teams[req[s].teamId], req[s].memberId)

OwnerOps == {"deleteTeam", "updateMemberRole"}

\* C9: deleteTeam and updateMemberRole by a requester other than team.owner
\* are answered 403 Forbidden, whatever the requester's stored role; only
\* the owner's request gets as far as its delete or save, and the step that
\* answers 403 leaves the teams as they were.
C9_OwnerOnly ==
  /\ [](\A s \in Slots :
          /\ (req[s].pc = "done" /\ req[s].op \in OwnerOps
              /\ req[s].teamId \in TeamIds
              /\ teams[req[s].teamId].st = "live"
              /\ req[s].user # teams[req[s].teamId].owner)
               => req[s].code = 403 /\ req[s].err = "Forbidden"
          /\ (req[s].pc \in {"save", "delete"} /\ req[s].op \in OwnerOps)
               => req[s].user = req[s].team.owner)
  /\ [][\A s \in Slots :
          (Replied(s) /\ req'[s].op \in OwnerOps /\ req'[s].code = 403)
            => teams' = teams]_vars

\* a member whose stored role is 'owner' asks to delete the team: 403
C9_Witness ==
  \E s \in Slots :
    /\ req[s].pc = "done" /\ req[s].op = "deleteTeam" /\ req[s].code = 403
    /\ req[s].teamId \in TeamIds
    /\ teams[req[s].teamId].st = "live"
    /\ req[s].user # teams[req[s].teamId].owner
    /\ getMemberRole(teams[req[s].teamId], req[s].user) = "owner"

\* C10: the only entry of team.members with role 'owner' is the entry of
\* team.owner.
C10_OnlyOwnerHasOwnerRole ==
  \A t \in TeamIds :
    teams[t].st = "live" =>
      \A i \in DOMAIN teams[t].members :
        teams[t].members[i].role = "owner"
          => teams[t].members[i].userId = teams[t].owner

ProjectOps == {"updateProject", "deleteProject"}

\* a finished updateProject / deleteProject that found its project and the
\* project's team
OnProject(r) ==
  /\ r.pc = "done" /\ r.op \in ProjectOps
  /\ r.proj.st = "live" /\ r.teamId \in TeamIds
  /\ teams[r.teamId].st = "live"

\* C11: updateProject and deleteProject on a stored project succeed exactly
\* when the requester is isAdminOrOwner of the project's team, which takes
\* his entry in team.members with role owner or admin; every other
\* requester, a plain member included, is answered 403 Forbidden and that
\* step leaves the projects as they were; a successful delete leaves the
\* project not stored, a successful update stores the requested name.
C11_ProjectAdminOrOwner ==
  /\ [](\A s \in Serial :
          OnProject(req[s]) =>
            IF isAdminOrOwner(teams[req[s].teamId], req[s].user)
              THEN /\ req[s].code = 200
                   /\ getMemberRole(teams[req[s].teamId], req[s].user)
                        \in {"owner", "admin"}
                   /\ req[s].op = "deleteProject"
                        => projects[req[s].projId].st # "live"
                   /\ (req[s].op = "updateProject" /\ req[s].name # "absent")
                        => projects[req[s].projId].name = req[s].name
              ELSE /\ req[s].code = 403 /\ req[s].err = "Forbidden"
                   /\ projects[req[s].projId] = req[s].proj)
  /\ [][\A s \in Serial :
          (Replied(s) /\ req'[s].op \in ProjectOps /\ req'[s].code # 200)
            => projects' = projects]_vars

\* a plain member asks to delete a project of his team: 403, project stored
C11_Witness ==
  \E s \in Serial :
    /\ OnProject(req[s]) /\ req[s].op = "deleteProject"
    /\ getMemberRole(teams[req[s].teamId], req[s].user) = "member"
    /\ req[s].code = 403
    /\ projects[req[s].projId].st = "live"

\* a finished deleteTask that found its task, the task's project and the
\* project's team
OnDeleteTask(r) ==
  /\ r.pc = "done" /\ r.op = "deleteTask"
  /\ r.task.st = "live" /\ r.proj.st = "live"
  /\ r.teamId \in TeamIds /\ teams[r.teamId].st = "live"

TaskOps == {"createTask", "updateTask", "updateTaskStatus", "deleteTask"}

\* C13: every task operation requires membership of the task's team at the
\* time the request is handled: a createTask, updateTask, updateTaskStatus
\* or deleteTask that is answered with success was made by a user who has
\* an entry in the members of the team, also after he was removed from the
\* team or left it.
C13_TaskOpsNeedMembership ==
  \A s \in Serial :
    (req[s].pc = "done" /\ req[s].op \in TaskOps
     /\ req[s].code \in {200, 201}) =>
      /\ req[s].teamId \in TeamIds
      /\ teams[req[s].teamId].st = "live"
      /\ isMember(teams[req[s].teamId], req[s].user)

AssigningOps == {"createTask", "updateTask"}

\* request r names as assignee an existing user who has no entry in the
\* members of the team of the task's project
NonMemberAssignee(r) ==
  /\ r.op \in AssigningOps /\ r.assignee \in Users
  /\ r.teamId \in TeamIds /\ teams[r.teamId].st = "live"
  /\ ~isMember(teams[r.teamId], r.assignee)

\* C14: createTask and updateTask that name as assignee an existing user
\* who is not a member of the task's team never reach their save: the step
\* that answers writes no task, starts no activity and emits no event, and
\* the answer to a requester who may work on the team's tasks is 400
\* Invalid Assignee.
C14_NonMemberAssigneeRejected ==
  /\ [](\A s \in Serial :
          /\ (req[s].pc = "done" /\ NonMemberAssignee(req[s])
              /\ isMember(teams[req[s].teamId], req[s].user))
               => /\ req[s].code = 400
                  /\ req[s].err = "Invalid Assignee"
          /\ (req[s].pc = "save" /\ req[s].op \in AssigningOps
              /\ req[s].assignee \in Users)
               => isMember(req[s].team, req[s].assignee))
  /\ [][\A s \in Serial :
          (Replied(s) /\ NonMemberAssignee(req'[s])) =>
            /\ req'[s].code \notin {200, 201}
            /\ tasks' = tasks
            /\ logged' = <<>> /\ emitted' = <<>>]_vars

\* a member asks to hand a stored task to a user outside the team: 400,
\* the task keeps its assignee
C14_Witness ==
  \E s \in Serial :
    /\ req[s].pc = "done" /\ req[s].op = "updateTask"
    /\ NonMemberAssignee(req[s])
    /\ isMember(teams[req[s].teamId], req[s].user)
    /\ req[s].code = 400 /\ req[s].err = "Invalid Assignee"
    /\ tasks[req[s].taskId] = req[s].task
    /\ logged = <<>> /\ emitted = <<>>

\* C15: every stored task with an assignee, whose project and team are
\* stored, has an assignee who has an entry in the members of the team that
\* owns the task's project, also after removeMember and leaveTeam.
C15_AssigneeIsMember ==
  \A k \in TaskIds :
    (/\ tasks[k].st = "live" /\ tasks[k].assignee # "null"
     /\ projects[tasks[k].projectId].st = "live"
     /\ teams[projects[tasks[k].projectId].teamId].st = "live")
      => isMember(teams[projects[tasks[k].projectId].teamId],
                  tasks[k].assignee)

\* C16: a connection enters room team:{T} only through a team:join request
\* for T handled while T is stored and the connection's user has an entry
\* in the members of T as loaded by the handler; a team:join for a team that
\* is not stored or by a user without an entry is answered with an error
\* event and leaves the connection's rooms as they were.
C16_JoinOnlyForMembers ==
  [][\A c \in Conns, t \in TeamIds :
       /\ (teamRoom(t) \notin sockets[c].rooms
           /\ teamRoom(t) \in sockets'[c].rooms) =>
             /\ JOIN_TEAM(c, t)
             /\ teams[t].st = "live"
             /\ isMember(teams[t], sockets[c].user)
             /\ sockets'[c].last = <<"team:joined", t>>
       /\ (JOIN_TEAM(c, t)
           /\ ~(teams[t].st = "live" /\ isMember(teams[t], sockets[c].user))) =>
             /\ sockets'[c].rooms = sockets[c].rooms
             /\ sockets'[c].last[1] = "error"]_vars

\* a connection of a user who is not a member has asked to join the room
\* of a stored team: error event, no team room
C16_Witness ==
  \E c \in Conns, t \in TeamIds :
    /\ sockets[c].user # NoUser
    /\ teams[t].st = "live" /\ ~isMember(teams[t], sockets[c].user)
    /\ sockets[c].last = <<"error", "You are not a member of this team">>
    /\ sockets[c].rooms = {userRoom(sockets[c].user)}

\* C17: every connection in room team:{T} of a stored team T belongs to a
\* user who has an entry in the members of T, so an event emitted to the
\* room after a removal does not reach the removed user's connection.
C17_RoomHoldsMembersOnly ==
  \A c \in Conns, t \in TeamIds :
    (teamRoom(t) \in sockets[c].rooms /\ teams[t].st = "live")
      => isMember(teams[t], sockets[c].user)

\* the event kinds that carry a copy for the affected user
PersonalEvents ==
  {"task:assigned", "member:joined", "member:removed", "member:role_updated"}

\* the request that emits an event of kind e on success
EmitterOf(e) ==
  CASE e = "task:assigned" -> "updateTask"
    [] e = "member:joined" -> "inviteMember"
    [] e = "member:removed" -> "removeMember"
    [] e = "member:role_updated" -> "updateMemberRole"

\* the user an event of kind e of request r is about
AffectedUser(r, e) == IF e = "task:assigned" THEN r.assignee ELSE r.memberId

\* the emissions of kind e among the emitted ones, in order
OfKind(e) == SelectSeq(emitted, LAMBDA m : m.event = e)

\* C18: one emission of task:assigned, member:joined, member:removed or
\* member:role_updated delivers exactly two copies, in this order: one to
\* room team:{teamId} without isPersonal and one to room user:{id} of the
\* affected user (the assignee, the added or removed member, the member
\* whose role changed) with isPersonal true; a successful inviteMember,
\* removeMember, updateMemberRole and an updateTask that hands the task to
\* another user emit their kind.
C18_PersonalCopy ==
  \A s \in Serial, e \in PersonalEvents :
    /\ OfKind(e) # <<>> =>
         /\ req[s].pc = "done" /\ req[s].op = EmitterOf(e)
         /\ OfKind(e) =
              <<Emission(teamRoom(req[s].teamId), e, FALSE),
                Emission(userRoom(AffectedUser(req[s], e)), e, TRUE)>>
    /\ (/\ req[s].pc = "done" /\ req[s].op = EmitterOf(e)
        /\ req[s].code \in {200, 201}
        /\ e = "task:assigned" =>
             (req[s].assignee \in Users
              /\ assigneeChanged(req[s].task, req[s].assignee)))
         => OfKind(e) # <<>>

\* a removal answered 200 with its two copies emitted
C18_Witness ==
  \E s \in Serial :
    /\ req[s].pc = "done" /\ req[s].op = "removeMember" /\ req[s].code = 200
    /\ emitted = <<Emission(teamRoom(req[s].teamId), "member:removed", FALSE),
                   Emission(userRoom(req[s].memberId), "member:removed", TRUE)>>

\* the requests that change a task, a project or a team
MutatingOps ==
  {"createTask", "updateTask", "updateTaskStatus", "deleteTask",
   "createProject", "updateProject", "deleteProject",
   "inviteMember", "removeMember", "updateMemberRole", "leaveTeam",
   "updateTeam", "deleteTeam"}

\* C19: while the socket server is initialized, every mutating request that
\* is answered with success has emitted at least one event to room
\* team:{teamId} of the team it changed.
C19_SuccessEmitsToTeamRoom ==
  \A s \in Serial :
    (/\ req[s].pc = "done" /\ req[s].op \in MutatingOps
     /\ req[s].code \in {200, 201} /\ io)
      => \E i \in DOMAIN emitted :
           emitted[i].room = teamRoom(req[s].teamId)

\* the activity documents with action a on task k among the logged ones
TaskActivities(a, k) ==
  SelectSeq(logged, LAMBDA d : d.action = a /\ d.entity = "task"
                               /\ d.entityId = k)

\* C20: a task created with an assignee has exactly one 'assigned' activity
\* logged by its creation, and an update that clears the assignee of an
\* assigned task logs exactly one 'unassigned' activity: the two requests in
\* this order leave one 'assigned' and then one 'unassigned' record of the
\* task.
C20_AssignedThenUnassigned ==
  \A s \in Serial :
    /\ (/\ req[s].pc = "done" /\ req[s].op = "createTask"
        /\ req[s].code = 201 /\ req[s].assignee \in Users)
         => Len(TaskActivities("assigned", req[s].taskId)) = 1
    /\ (/\ req[s].pc = "done" /\ req[s].op = "updateTask"
        /\ req[s].code = 200 /\ req[s].assignee = "null"
        /\ req[s].task.assignee \in Users)
         => /\ Len(TaskActivities("unassigned", req[s].taskId)) = 1
            /\ Len(TaskActivities("assigned", req[s].taskId)) = 0

\* C21: every status change that is answered with success, through
\* updateTaskStatus or through updateTask, has appended exactly one
\* 'status_changed' activity of the task whose metadata holds the old and
\* the new status.
C21_StatusChangeLogged ==
  \A s \in Serial :
    (/\ req[s].pc = "done" /\ req[s].op \in StatusOps /\ req[s].code = 200
     /\ statusChanged(req[s].task, req[s].status))
      => /\ Len(TaskActivities("status_changed", req[s].taskId)) = 1
         /\ TaskActivities("status_changed", req[s].taskId)[1].metadata
              = <<req[s].task.status, req[s].status>>

\* the events with name e among the emitted ones
Events(e) == SelectSeq(emitted, LAMBDA x : x.event = e)

\* the assignee a request of updateTask leaves on the task differs from the
\* one the task had
AssigneeDiffers(r) == r.assignee # "absent" /\ r.assignee # r.task.assignee

\* C30: updateTask appends an 'assigned' or 'unassigned' activity only when
\* the assignee of the task actually changes: an update that clears the
\* assignee of a task that has none, or that sets the assignee the task
\* already has, appends neither and emits no task:assigned event.
C30_AssignedOnlyOnChange ==
  \A s \in Serial :
    (/\ req[s].pc = "done" /\ req[s].op = "updateTask" /\ req[s].code = 200
     /\ ~AssigneeDiffers(req[s]))
      => /\ TaskActivities("assigned", req[s].taskId) = <<>>
         /\ TaskActivities("unassigned", req[s].taskId) = <<>>
         /\ Events("task:assigned") = <<>>

\* the requests addressed to one task
OneTaskOps == {"getTaskById", "updateTask", "updateTaskStatus", "deleteTask"}

\* C29: whatever was deleted before (deleteProject and deleteTeam leave the
\* projects and tasks below them stored), a getTaskById, updateTask,
\* updateTaskStatus or deleteTask request addressed to a task that is still
\* stored is never answered with an internal server error (500).
C29_StoredTaskNeverServerError ==
  \A s \in Serial :
    (/\ req[s].pc = "done" /\ req[s].op \in OneTaskOps
     /\ tasks[req[s].taskId].st = "live")
      => req[s].code # 500

\* the members of a team hold an entry of its owner with role 'owner'
HasOwnerEntry(team) ==
  \E i \in DOMAIN team.members :
    team.members[i].userId = team.owner /\ team.members[i].role = "owner"

\* C25: after createTeam and any sequence of inviteMember, removeMember,
\* updateMemberRole, leaveTeam and updateTeam, the members of a stored team
\* contain an entry for team.owner with role 'owner', and team.owner never
\* changes.
C25_OwnerStaysMember ==
  [][\A t \in TeamIds :
       teams'[t].st = "live"
         => /\ HasOwnerEntry(teams'[t])
            /\ teams[t].st = "live" => teams'[t].owner = teams[t].owner]_vars

\* a member has left or was removed from a team, or got another role, and the
\* owner's entry is in place
C25_Witness ==
  \E s \in Serial :
    /\ req[s].pc = "done" /\ req[s].code = 200
    /\ req[s].op \in {"removeMember", "leaveTeam", "updateMemberRole"}
    /\ teams[req[s].teamId].st = "live"
    /\ HasOwnerEntry(teams[req[s].teamId])

\* C26: authorization comes before mutation and side effects.  A mutating
\* team, project or task request that is answered with Forbidden (403) or
\* NotFound (404) has written nothing to the stored teams, projects and
\* tasks, has appended no activity and has emitted no event: the answering
\* step writes nothing, and the request had not reached the position after
\* its write before.
C26_RejectedWritesNothing ==
  [][\A s \in Serial :
       (/\ Replied(s) /\ req'[s].op \in MutatingOps
        /\ req'[s].code \in {403, 404})
         => /\ teams' = teams /\ projects' = projects /\ tasks' = tasks
            /\ logged' = <<>> /\ emitted' = <<>>
            /\ inflight' = inflight
            /\ req[s].pc # "emit"]_vars

\* a member without the admin role was refused the deletion of a project,
\* which is still stored
C26_Witness ==
  \E s \in Serial :
    /\ req[s].pc = "done" /\ req[s].op = "deleteProject" /\ req[s].code = 403
    /\ projects[req[s].projId].st = "live"
    /\ isMember(req[s].team, req[s].user)

\* C28: for two concurrent successful updates of one task, the events reach
\* the team room in the order of the saves: when an update emits its events
\* and answers, no update whose save of the same task was acknowledged
\* before its own is still waiting to emit.
C28_EventsInSaveOrder ==
  \A b \in Slots :
    (req[b].pc = "done" /\ req[b].op \in StatusOps /\ req[b].code = 200)
      => \A a \in req[b].after : req[a].pc # "emit"

\* the inserts in flight of operations on task k that have been answered
AnsweredInserts(k) ==
  {j \in DOMAIN inflight : /\ inflight[j].answered
                           /\ inflight[j].doc.entity = "task"
                           /\ inflight[j].doc.entityId = k}

\* C27: the activity records of one task are inserted in the order in which
\* their operations completed.  When the insert of a record of an operation
\* that has not answered yet is acknowledged, no record of an operation on
\* the same task that was persisted and answered before is still waiting
\* for its insert.
C27_InsertedInCompletionOrder ==
  [][\A i \in DOMAIN inflight :
       (/\ Activity_save(i) /\ ~inflight[i].answered
        /\ inflight[i].doc.entity = "task")
         => AnsweredInserts(inflight[i].doc.entityId) = {}]_vars

\* the task and project requests that start an activity or emit an event
SideEffectOps ==
  {"createProject", "updateProject", "deleteProject",
   "createTask", "updateTask", "updateTaskStatus", "deleteTask"}

\* the positions of a handler from its write on
WritePcs == {"save", "delete", "emit"}

\* the success response of a request
SuccessOf(op) ==
  CASE op = "createProject" -> <<201, "Project created successfully">>
    [] op = "updateProject" -> <<200, "Project updated successfully">>
    [] op = "deleteProject" -> <<200, "Project deleted successfully">>
    [] op = "createTask" -> <<201, "Task created successfully">>
    [] op = "updateTask" -> <<200, "Task updated successfully">>
    [] op = "updateTaskStatus" -> <<200, "Task status updated successfully">>
    [] op = "deleteTask" -> <<200, "Task deleted successfully">>

\* the change request r asked for is in the stored projects ps and tasks ks
Persisted(r, ps, ks) ==
  CASE r.op = "createProject" -> ps[r.projId].st = "live"
    [] r.op = "updateProject" ->
         /\ ps[r.projId].st = "live"
         /\ r.name # "absent" => ps[r.projId].name = r.name
    [] r.op = "deleteProject" -> ps[r.projId].st = "gone"
    [] r.op = "createTask" -> ks[r.taskId].st = "live"
    [] r.op \in StatusOps ->
         /\ ks[r.taskId].st = "live"
         /\ r.status # "absent" => ks[r.taskId].status = r.status
         /\ r.assignee # "absent" => ks[r.taskId].assignee = r.assignee
    [] r.op = "deleteTask" -> ks[r.taskId].st = "gone"

\* a side effect service fails
SideEffectFails == fault \in {"activity", "emit"} \/ ~io

\* C22: a failing activity insert, a throwing emit or a socket server that
\* was not initialized never affects the primary mutation.  A task or
\* project request that has passed its checks is answered with the same
\* success response as without the failure, its change is stored, and the
\* failed side effect is not repeated: no activity is inserted or left in
\* flight after a rejected insert, and no event is emitted after a failed
\* emit.
C22_SideEffectFailureAbsorbed ==
  [][\A s \in Serial :
       (/\ Replied(s) /\ req[s].op \in SideEffectOps
        /\ req[s].pc \in WritePcs /\ SideEffectFails)
         => /\ <<req'[s].code, req'[s].msg[1]>> = SuccessOf(req[s].op)
            /\ Persisted(req'[s], projects', tasks')
            /\ fault = "activity" => logged' = <<>> /\ inflight' = <<>>
            /\ (fault = "emit" \/ ~io) => emitted' = <<>>]_vars

\* a status update was stored and answered with success although the insert
\* of its activities was rejected
C22_Witness ==
  \E s \in Serial :
    /\ req[s].pc = "done" /\ req[s].op = "updateTask" /\ req[s].code = 200
    /\ fault = "activity" /\ logged = <<>>
    /\ statusChanged(req[s].task, req[s].status)
    /\ tasks[req[s].taskId].status = req[s].status

\* C23: a register request for an email whose user is already verified is
\* answered with Conflict (409) at once and leaves the user record as it
\* was: name, isVerified and password keep their values and no code or
\* expiry is stored.
C23_RegisterVerifiedConflict ==
  [][\A s \in Serial :
       (/\ req[s].pc = "idle" /\ req'[s].op = "register"
        /\ users[req'[s].email].st = "live"
        /\ users[req'[s].email].isVerified)
         => /\ req'[s].pc = "done" /\ req'[s].code = 409
            /\ users'[req'[s].email].name = users[req'[s].email].name
            /\ users'[req'[s].email].isVerified
            /\ users'[req'[s].email].password = users[req'[s].email].password
            /\ users'[req'[s].email].otp = <<>>
            /\ users'[req'[s].email].otpExpiry = <<>>]_vars

\* a register request with another name for a verified email was answered 409
C23_Witness ==
  \E s \in Serial :
    /\ req[s].pc = "done" /\ req[s].op = "register" /\ req[s].code = 409
    /\ users[req[s].email].isVerified
    /\ users[req[s].email].name # req[s].name

\* the code a stored digest was computed from
CodeOf(digest) == digest[2]

\* slot s is a verifyOTP request for email e about to save, and the code it
\* presented is the one whose digest is stored, before its expiry
Consuming(s, e) ==
  /\ req[s].op = "verifyOTP" /\ req[s].pc = "save" /\ req[s].email = e
  /\ users[e].otp # <<>> /\ CodeOf(users[e].otp) = req[s].otp
  /\ users[e].otpExpiry # <<>> /\ now <= users[e].otpExpiry[1]

\* C24: over any sequence of register, resendOTP, verifyOTP and login
\* requests the isVerified flag of a user changes only from false to true,
\* hence at most once, and only in a verifyOTP request that presents the
\* code whose digest is stored and has not expired; the same step sets a
\* password and clears otp and otpExpiry; and every verifyOTP request for a
\* verified user is rejected and leaves the user as it is.
C24_VerifiedOnceByCode ==
  [][\A e \in Emails :
       /\ users'[e].isVerified # users[e].isVerified
            => /\ ~users[e].isVerified /\ users'[e].isVerified
               /\ \E s \in Serial : Consuming(s, e) /\ Replied(s)
               /\ users'[e].password # <<>>
               /\ users'[e].otp = <<>> /\ users'[e].otpExpiry = <<>>
       /\ \A s \in Serial :
            (/\ Replied(s) /\ req'[s].op = "verifyOTP"
             /\ req'[s].email = e /\ users[e].isVerified)
              => req'[s].code = 400 /\ users' = users]_vars

\* a verifyOTP request has verified a user; the user has a password and no
\* code
C24_Witness ==
  \E s \in Serial :
    /\ req[s].pc = "done" /\ req[s].op = "verifyOTP" /\ req[s].code = 200
    /\ users[req[s].email].isVerified
    /\ users[req[s].email].password = hashPassword(req[s].password)
    /\ users[req[s].email].otp = <<>>

====
